---- MODULE Spec2Model ----
(***************************************************************************)
(* A model of the clover compiler and runtime (crates/clover):            *)
(*   - backend/dependency_solver.rs and the load loop of compile_to       *)
(*   - backend/compiler.rs (CompilerContext, CompilerEnv)                  *)
(*   - backend/function_state.rs (FunctionState)                           *)
(*   - runtime/program.rs (Model, Program::serialize / deserialize)        *)
(*   - runtime/iterator.rs (Env::for_next / Env::iterate)                  *)
(* Every struct is a record variable, every method an operator from the    *)
(* record (and the arguments) to the new record.                           *)
(***************************************************************************)
EXTENDS Integers, Sequences, FiniteSets, TLC

VARIABLES
    \* compile_to (compiler.rs:791-829)
    solver,             \* DependencySolver {dependencies, references, unsolved}
    documents,          \* documents: HashMap<String, Document> (filename -> get_dependencies())
    loaded_assemblies,  \* the snapshot context.get_loaded_assemblies() of line 798
    filenames,          \* context.file_info.filenames: the files compile_document was run on, in order
    pc,                 \* where compile_to stands
    result,             \* what compile_to returned
    \* CompilerContext (compiler.rs:34-52)
    context,            \* the CompilerContext
    constant_calls,     \* the add_constant calls made so far: <<[object, index]>>
    \* Model (program.rs:47-53)
    model,              \* the Model being built
    property_call,      \* the last add_property call: its name, what it returned, the Model before it
    \* compile_function_definition_base (compiler.rs:640-662)
    func_state,         \* the FunctionState being filled
    env,                \* CompilerEnv: locals (the module scope) and errors
    blocks,             \* the if expressions and for statements whose body is being compiled, outermost first
    line,               \* the statements compiled so far; statement n stands on line n
    last,               \* the last statement step: its kind and the state it started from
    has_rescue,         \* a rescue statement of the function's own statement list has been compiled
    breaks,             \* the Jumps the break statements emitted and the loops compiled so far
    \* Env (runtime/env.rs, runtime/iterator.rs)
    program,            \* the Program the Env runs, with the marks of the loop under observation
    stack,              \* the value stack
    frames,             \* the frame stack, the current frame last
    outcome,            \* Running, or what execute returned
    raised,             \* the frames and the stack when the last runtime error was raised
    body_runs,          \* the values the loop variable had each time the observed body was entered
    loop_depth,         \* the stack depth when the observed loop was entered and when it was left
    \* Clover::save_program and load_program (lib.rs:56-69)
    image,              \* the Program the compiler built
    compression,        \* the compression flag of the save and of the load
    file,               \* the bytes Program::serialize wrote
    reloaded,           \* what Program::deserialize returned
    stage,              \* compiled, saved (or failed), loaded
    \* lex (lexer.rs:301-320)
    lex_state,          \* the LexState
    token,              \* the last token lexed
    number,             \* the number_string and is_float the last lex_number ended with
    \* binary_operation (operation.rs:253-289)
    operation,          \* the last call: its operands and what it returned
    \* compile_definition (compiler.rs:750-761)
    compiling,          \* the file being compiled: what CompilerContext and CompilerEnv hold of it
    definition,         \* the last definition compiled and the unit before it
    \* FunctionState (function_state.rs:115-163) and the identifiers (compiler.rs:296-390)
    scoped,             \* the CompilerEnv and FunctionState of the function being compiled
    allocated,          \* the indices define_local and define_anonymous_local have returned, in order
    call                \* the last call, what it returned and the state before it

solverVars == <<solver, documents, loaded_assemblies, filenames, pc, result>>

constVars == <<context, constant_calls>>

modelVars == <<model, property_call>>

funcVars == <<func_state, env, blocks, line, last, has_rescue, breaks>>

envVars == <<program, stack, frames, outcome, raised, body_runs, loop_depth>>

imageVars == <<image, compression, file, reloaded, stage>>

lexVars == <<lex_state, token, number>>

operationVars == <<operation>>

unitVars == <<compiling, definition>>

scopeVars == <<scoped, allocated, call>>

vars ==
    <<solverVars, constVars, modelVars, funcVars, envVars, imageVars, lexVars,
      operationVars, unitVars,
      scopeVars>>

\* what each specification leaves alone
NotLoad ==
    <<constVars, modelVars, funcVars, envVars, imageVars, lexVars, operationVars,
      unitVars,
      scopeVars>>

NotConst ==
    <<solverVars, modelVars, funcVars, envVars, imageVars, lexVars, operationVars,
      unitVars,
      scopeVars>>

NotModel ==
    <<solverVars, constVars, funcVars, envVars, imageVars, lexVars, operationVars,
      unitVars,
      scopeVars>>

NotFunction ==
    <<solverVars, constant_calls, modelVars, envVars, imageVars, lexVars, operationVars,
      unitVars,
      scopeVars>>

NotEnv ==
    <<solverVars, constVars, modelVars, funcVars, imageVars, lexVars, operationVars,
      unitVars,
      scopeVars>>

NotImage ==
    <<solverVars, constVars, modelVars, funcVars, envVars, lexVars, operationVars,
      unitVars,
      scopeVars>>

NotLex ==
    <<solverVars, constVars, modelVars, funcVars, envVars, imageVars, operationVars,
      unitVars,
      scopeVars>>

NotOperation ==
    <<solverVars, constVars, modelVars, funcVars, envVars, imageVars, lexVars, unitVars,
      scopeVars>>

NotUnit ==
    <<solverVars, constVars, modelVars, funcVars, envVars, imageVars, lexVars,
      operationVars,
      scopeVars>>

NotScope ==
    <<solverVars, constVars, modelVars, funcVars, envVars, imageVars, lexVars,
      operationVars, unitVars>>

(***************************************************************************)
(* Helpers on maps (HashMap) kept as functions on their key sets.          *)
(***************************************************************************)
EmptyMap == [k \in {} |-> 0]

MapInsert(m, k, v) == [x \in (DOMAIN m) \cup {k} |-> IF x = k THEN v ELSE m[x]]

MapRemove(m, k) == [x \in (DOMAIN m) \ {k} |-> m[x]]

\* F of x, where x is computed once however often F uses it
With(x, F(_)) == CHOOSE r \in {F(v) : v \in {x}} : TRUE

RECURSIVE SeqsUpTo(_, _)
SeqsUpTo(S, n) ==
    IF n = 0 THEN {<<>>}
    ELSE LET shorter == SeqsUpTo(S, n - 1)
         IN shorter \cup {Append(s, x) : s \in {t \in shorter : Len(t) = n - 1}, x \in S}

Range(s) == {s[i] : i \in 1..Len(s)}

(***************************************************************************)
(* Bounds and the universe of files.                                       *)
(***************************************************************************)
MaxDeps == 2

Root == "main"

Files == {"main", "a", "b"}

(***************************************************************************)
(* DependencySolver (dependency_solver.rs)                                 *)
(***************************************************************************)
DependencySolver_new ==
    [dependencies |-> EmptyMap, references |-> EmptyMap, unsolved |-> {}]

is_empty(s) == DOMAIN s.dependencies = {}

get_potential_cycle_filenames(s) == DOMAIN s.dependencies

\* self.unsolved.iter().next(): any element, the hash order decides
get_unsolved_filename(s) == s.unsolved

\* dependencies.iter().find(count == 0): any tracked file whose count is 0
get_next_no_dependency_filename(s) ==
    {f \in DOMAIN s.dependencies : s.dependencies[f] = 0}

add_reference(s, source, target) ==
    LET refs == IF target \in DOMAIN s.references
                THEN s.references
                ELSE MapInsert(s.references, target, <<>>)
    IN [s EXCEPT !.references = MapInsert(refs, target, Append(refs[target], source))]

increase_dependency(s, source) ==
    IF source \in DOMAIN s.dependencies
    THEN [s EXCEPT !.dependencies = MapInsert(@, source, @[source] + 1)]
    ELSE [s EXCEPT !.dependencies = MapInsert(@, source, 1)]

\* a decrement that clears the count instead of lowering it by one
decrease_dependency_clear(s, source) ==
    IF source \in DOMAIN s.dependencies
    THEN [s EXCEPT !.dependencies = MapInsert(@, source, 0)]
    ELSE s

\* `*count -= 1` on a u32: below 0 the debug build panics and the release build
\* wraps to 2^32 - 1; the model keeps the mathematical value, so a negative count
\* marks the underflow.
decrease_dependency(s, source) ==
    IF source \in DOMAIN s.dependencies
    THEN [s EXCEPT !.dependencies = MapInsert(@, source, @[source] - 1)]
    ELSE s

RECURSIVE add_dependencies_loop(_, _, _, _)
add_dependencies_loop(s, filename, deps, loaded) ==
    IF deps = <<>> THEN s
    ELSE LET d == Head(deps)
             s1 == IF d \notin loaded
                   THEN LET a == increase_dependency(s, filename)
                            b == add_reference(a, filename, d)
                        IN  IF d \notin DOMAIN b.dependencies
                            THEN [b EXCEPT !.unsolved = @ \cup {d}]
                            ELSE b
                   ELSE s
         IN add_dependencies_loop(s1, filename, Tail(deps), loaded)

\* a solve that does not count a dependency the solver already tracks
add_dependencies_skip_tracked(s, filename, deps, loaded) ==
    add_dependencies_loop([s EXCEPT !.dependencies = MapInsert(@, filename, 0)],
                          filename, deps, loaded \cup DOMAIN s.dependencies)

add_dependencies(s, filename, deps, loaded) ==
    add_dependencies_loop([s EXCEPT !.dependencies = MapInsert(@, filename, 0)],
                          filename, deps, loaded)

\* a solve that leaves the filename in unsolved
solve_keeping_unsolved(s, filename, deps, loaded) ==
    IF filename \in loaded \/ filename \in DOMAIN s.dependencies
    THEN s
    ELSE add_dependencies(s, filename, deps, loaded)

solve(s, filename, deps, loaded) ==
    IF filename \in loaded \/ filename \in DOMAIN s.dependencies
    THEN s
    ELSE LET a == add_dependencies(s, filename, deps, loaded)
         IN [a EXCEPT !.unsolved = @ \ {filename}]

RECURSIVE decrease_all(_, _)
decrease_all(s, source_list) ==
    IF source_list = <<>> THEN s
    ELSE decrease_all(decrease_dependency(s, Head(source_list)), Tail(source_list))

set_loaded(s, filename) ==
    LET a == [s EXCEPT !.dependencies = MapRemove(@, filename)]
    IN IF filename \in DOMAIN a.references
       THEN decrease_all([a EXCEPT !.references = MapRemove(@, filename)],
                         a.references[filename])
       ELSE a

(***************************************************************************)
(* compile_to (compiler.rs:791-829), one action per step of its loops.     *)
(* A document is known by its filename and its get_dependencies() list,    *)
(* which the parser fixes when the file is parsed.                         *)
(***************************************************************************)
DepLists == SeqsUpTo(Files, MaxDeps)

SolverInit ==
    /\ solver = DependencySolver_new
    /\ documents = EmptyMap
    /\ loaded_assemblies \in SUBSET Files
    /\ filenames = <<>>
    /\ pc = "parse_root"
    /\ result = "none"

\* lines 796-802: parse(source, filename)?, solve, documents.insert
ParseRoot ==
    /\ pc = "parse_root"
    /\ \E deps \in DepLists :
          /\ solver' = solve(solver, Root, deps, loaded_assemblies)
          /\ documents' = MapInsert(documents, Root, deps)
    /\ pc' = "discover"
    /\ UNCHANGED <<loaded_assemblies, filenames, result>>
    /\ UNCHANGED NotLoad

\* line 796: parse(...)? returns the parse errors
ParseRootFail ==
    /\ pc = "parse_root"
    /\ pc' = "done"
    /\ result' = "ErrParse"
    /\ UNCHANGED <<solver, documents, loaded_assemblies, filenames>>
    /\ UNCHANGED NotLoad

\* lines 804-810, one iteration: the file loads and parses
Discover ==
    /\ pc = "discover"
    /\ \E f \in get_unsolved_filename(solver), deps \in DepLists :
          /\ solver' = solve(solver, f, deps, loaded_assemblies)
          /\ documents' = MapInsert(documents, f, deps)
    /\ UNCHANGED <<loaded_assemblies, filenames, pc, result>>
    /\ UNCHANGED NotLoad

\* lines 805-806: load_file(...)? or parse(...)? returns the error
DiscoverFail ==
    /\ pc = "discover"
    /\ get_unsolved_filename(solver) # {}
    /\ pc' = "done"
    /\ result' = "ErrLoad"
    /\ UNCHANGED <<solver, documents, loaded_assemblies, filenames>>
    /\ UNCHANGED NotLoad

\* line 804: get_unsolved_filename() is None, the first loop ends
DiscoverDone ==
    /\ pc = "discover"
    /\ get_unsolved_filename(solver) = {}
    /\ pc' = "compile"
    /\ UNCHANGED <<solver, documents, loaded_assemblies, filenames, result>>
    /\ UNCHANGED NotLoad

\* compile_document (770-789) pushes the filename whatever the errors
compile_document_files(names, f) == Append(names, f)

\* lines 812-818, one iteration: compile_document is Ok, then set_loaded
CompileNext ==
    /\ pc = "compile"
    /\ \E f \in get_next_no_dependency_filename(solver) :
          /\ f \in DOMAIN documents
          /\ filenames' = compile_document_files(filenames, f)
          /\ solver' = set_loaded(solver, f)
    /\ UNCHANGED <<documents, loaded_assemblies, pc, result>>
    /\ UNCHANGED NotLoad

\* a compile_document error that is kept for the end of the loop
CompileFail_continuing ==
    /\ pc = "compile"
    /\ \E f \in get_next_no_dependency_filename(solver) :
          /\ f \in DOMAIN documents
          /\ filenames' = compile_document_files(filenames, f)
          /\ solver' = set_loaded(solver, f)
    /\ result' = "ErrCompile"
    /\ UNCHANGED <<documents, loaded_assemblies, pc>>
    /\ UNCHANGED NotLoad

\* line 815: compile_document(...)? returns the file's errors
CompileFail ==
    /\ pc = "compile"
    /\ \E f \in get_next_no_dependency_filename(solver) :
          /\ f \in DOMAIN documents
          /\ filenames' = compile_document_files(filenames, f)
    /\ pc' = "done"
    /\ result' = "ErrCompile"
    /\ UNCHANGED <<solver, documents, loaded_assemblies>>
    /\ UNCHANGED NotLoad

\* lines 820-828: the residue check
Finish ==
    /\ pc = "compile"
    /\ get_next_no_dependency_filename(solver) = {}
    /\ pc' = "done"
    /\ result' = IF ~is_empty(solver) THEN "ErrCycle" ELSE "Ok"
    /\ UNCHANGED <<solver, documents, loaded_assemblies, filenames>>
    /\ UNCHANGED NotLoad

SolverNext ==
    \/ ParseRoot
    \/ ParseRootFail
    \/ Discover
    \/ DiscoverFail
    \/ DiscoverDone
    \/ CompileNext
    \/ CompileFail
    \/ Finish


(***************************************************************************)
(* The include graph compile_to has parsed: A -> B when A's document lists  *)
(* B and B was not loaded in the context before compile_to started.         *)
(***************************************************************************)
IncludeEdge(A, B) ==
    /\ A \in DOMAIN documents
    /\ B \in Range(documents[A])
    /\ B \notin loaded_assemblies

RECURSIVE IncludePath(_, _, _)
IncludePath(A, B, n) ==
    /\ n > 0
    /\ \/ IncludeEdge(A, B)
       \/ \E C \in Files : IncludeEdge(A, C) /\ IncludePath(C, B, n - 1)

OnCycle(f) == IncludePath(f, f, Cardinality(Files))

ReachesCycle(f) ==
    \/ OnCycle(f)
    \/ \E c \in Files : OnCycle(c) /\ IncludePath(f, c, Cardinality(Files))

\* the files set_loaded has been called on: every compiled file but one whose
\* compile_document returned Err (line 815 returns before line 817)
SetLoadedFiles ==
    IF result = "ErrCompile"
    THEN Range(SubSeq(filenames, 1, Len(filenames) - 1))
    ELSE Range(filenames)

\* C1: load order. Every file compile_document ran on has each of its
\* not-previously-loaded dependencies compiled strictly before it, and a file
\* get_next_no_dependency_filename can return has had set_loaded called on every
\* one of its not-previously-loaded dependencies.
LoadOrder ==
    /\ \A i \in 1..Len(filenames) :
          \A B \in Files :
             IncludeEdge(filenames[i], B) => \E j \in 1..(i - 1) : filenames[j] = B
    /\ \A f \in get_next_no_dependency_filename(solver) :
          \A B \in Files : IncludeEdge(f, B) => B \in SetLoadedFiles

\* a run that returned Ok after compiling a file with two different
\* dependencies, one of which depends on the other
LoadOrderWitness ==
    /\ result = "Ok"
    /\ Len(filenames) = 3
    /\ IncludeEdge(filenames[3], filenames[1])
    /\ IncludeEdge(filenames[3], filenames[2])
    /\ IncludeEdge(filenames[2], filenames[1])

\* C2: cycle detection. Once compile_to has returned with a cycle in the include
\* graph it parsed, it returned an error and the solver's residue
\* (get_potential_cycle_filenames) holds every file on a cycle; the error is the
\* cycle report unless a load, parse or compile error ended compile_to first. In
\* every state, no file on a cycle or depending on one was passed to
\* compile_document.
CycleDetected ==
    /\ \A f \in Range(filenames) : ~ReachesCycle(f)
    /\ (pc = "done" /\ \E f \in Files : OnCycle(f)) =>
          /\ result \in {"ErrCycle", "ErrLoad", "ErrCompile"}
          /\ \A f \in Files : OnCycle(f) => f \in get_potential_cycle_filenames(solver)
    /\ result = "ErrCycle" =>
          get_potential_cycle_filenames(solver) = {f \in Files : ReachesCycle(f)}

\* the cycle report of a run in which one file was compiled, another includes
\* itself and the root depends on it
CycleDetectedWitness ==
    /\ result = "ErrCycle"
    /\ Len(filenames) = 1
    /\ \E c \in Files \ {Root} : IncludeEdge(c, c) /\ IncludeEdge(Root, c)
    /\ ~OnCycle(Root)

\* a cycle of two files reported
CycleOfTwoWitness ==
    /\ result = "ErrCycle"
    /\ \E c, d \in Files : c # d /\ IncludeEdge(c, d) /\ IncludeEdge(d, c) /\ ~IncludeEdge(c, c)

\* the root file and the files it includes, directly or through others
Included(f) == f = Root \/ IncludePath(Root, f, Cardinality(Files))

\* C19: no partial program. compile_to has a result exactly when it has
\* returned. It returns Ok, the only case in which compile makes a Program,
\* only when the solver is empty and, started on the new context compile
\* gives it, every file it parsed was compiled without an error: the root
\* file and every file it includes directly or through others. When
\* compile_document
\* returns errors for a file, compile_to returns them at once: the file is
\* the last one compiled, set_loaded was not called on it, and the files
\* still waiting are never compiled.
NoPartialProgram ==
    /\ (result # "none") <=> (pc = "done")
    /\ result = "Ok" => is_empty(solver)
    /\ (result = "Ok" /\ loaded_assemblies = {}) =>
          /\ Range(filenames) = DOMAIN documents
          /\ \A f \in Files : Included(f) => f \in Range(filenames)
    /\ result = "ErrCompile" =>
          /\ filenames # <<>>
          /\ filenames[Len(filenames)] \in get_potential_cycle_filenames(solver)
          /\ \A i \in 1..(Len(filenames) - 1) :
                 filenames[i] \notin get_potential_cycle_filenames(solver)

\* a run on a new context whose second file had a compile error while the
\* root file, which includes it, was waiting: the root file was not compiled
NoPartialProgramWitness ==
    /\ result = "ErrCompile"
    /\ loaded_assemblies = {}
    /\ Len(filenames) = 2
    /\ IncludeEdge(Root, filenames[2])
    /\ Root \notin Range(filenames)

\* the entries of f in the reverse-edge lists the solver holds
ReverseEdges(f) ==
    UNION {{<<t, i>> : i \in {k \in 1..Len(solver.references[t]) :
                                  solver.references[t][k] = f}} :
              t \in DOMAIN solver.references}

\* the entries of the dependency list of f that name a file neither loaded
\* before compile_to nor set_loaded since
Waiting(f) ==
    {i \in 1..Len(documents[f]) :
        documents[f][i] \notin loaded_assemblies \cup SetLoadedFiles}

\* C28: the count of a tracked file is the number of its entries in the
\* reverse-edge lists of the dependencies not yet set_loaded, a dependency
\* listed twice counted twice; no count is lowered below 0, and a count is 0
\* exactly when every dependency of the file is loaded.
DependencyCount ==
    /\ \A t \in DOMAIN solver.references : t \notin SetLoadedFiles
    /\ \A f \in DOMAIN solver.dependencies :
          /\ f \in DOMAIN documents
          /\ solver.dependencies[f] = Cardinality(ReverseEdges(f))
          /\ solver.dependencies[f] = Cardinality(Waiting(f))
          /\ solver.dependencies[f] >= 0
          /\ solver.dependencies[f] = 0 <=>
                 Range(documents[f]) \subseteq loaded_assemblies \cup SetLoadedFiles

\* a file lists its only dependency twice: its count was 2 and, the
\* dependency compiled and set_loaded, is 0
DependencyCountWitness ==
    /\ pc = "compile"
    /\ Len(filenames) = 1
    /\ \E f \in DOMAIN solver.dependencies :
          /\ documents[f] = <<filenames[1], filenames[1]>>
          /\ solver.dependencies[f] = 0

\* a file with two dependencies, one of them set_loaded: its count is 1
OneOfTwoWitness ==
    /\ pc = "compile"
    /\ Len(filenames) = 1
    /\ \E f \in DOMAIN solver.dependencies :
          /\ Len(documents[f]) = 2
          /\ documents[f][1] = filenames[1]
          /\ documents[f][2] \notin loaded_assemblies \cup {filenames[1]}
          /\ solver.dependencies[f] = 1

\* the files the discovery loop has to reach: the root file, when the context
\* has not loaded it, and the not loaded files it includes through others
Reached(f) == Root \notin loaded_assemblies /\ Included(f)

\* the discovery loop has ended with get_unsolved_filename() = None
Discovered == pc = "compile" \/ (pc = "done" /\ result \in {"Ok", "ErrCycle", "ErrCompile"})

DiscoveryInvariant ==
    /\ solver.unsolved \cap DOMAIN solver.dependencies = {}
    /\ solver.unsolved \cap loaded_assemblies = {}
    /\ Discovered =>
          /\ solver.unsolved = {}
          /\ \A f \in Files :
                Reached(f) => f \in DOMAIN solver.dependencies \cup SetLoadedFiles
          /\ filenames = <<>> => \A f \in Files : Reached(f) => f \in DOMAIN solver.dependencies

\* an iteration of the discovery loop parses a file not parsed before and
\* takes it out of unsolved
DiscoverStep ==
    (pc = "discover" /\ pc' = "discover") =>
        \E f \in solver.unsolved :
            /\ f \notin DOMAIN documents
            /\ DOMAIN documents' = DOMAIN documents \cup {f}
            /\ f \notin solver'.unsolved
            /\ f \in DOMAIN solver'.dependencies

\* C27: dependency discovery terminates. No filename is at once in unsolved
\* and a key of dependencies, or in unsolved and loaded; so the solve of a
\* file that get_unsolved_filename returned takes it out of unsolved, and
\* the discovery loop of compile_to ends: with unsolved empty and every not
\* loaded file the root includes, directly or through others, a key of
\* dependencies, unless a file fails to load or to parse.
DiscoveryTerminates ==
    /\ []DiscoveryInvariant
    /\ [][DiscoverStep]_vars
    /\ (pc = "discover") ~> (pc # "discover")

\* the discovery loop has ended on main, which includes a, which includes b
\* and main again: the three files are tracked
DiscoveryTerminatesWitness ==
    /\ pc = "compile"
    /\ filenames = <<>>
    /\ loaded_assemblies = {}
    /\ DOMAIN solver.dependencies = Files
    /\ IncludeEdge("a", "b")
    /\ IncludeEdge("a", Root)
    /\ ~IncludeEdge(Root, "b")

(***************************************************************************)
(* Runtime objects (runtime::object::Object), the kinds the compiler puts   *)
(* in the constant pool.                                                    *)
(***************************************************************************)
Null == [t |-> "Null"]

Boolean(b) == [t |-> "Boolean", b |-> b]

Integer(v) == [t |-> "Integer", v |-> v]

Float(f) == [t |-> "Float", f |-> f]

String(s) == [t |-> "String", s |-> s]

ModelObject(index) == [t |-> "Model", index |-> index]

FunctionObject(index) == [t |-> "Function", index |-> index]

\* Program::DEFAULT_CONSTANTS and the three indices (program.rs:214-217)
DEFAULT_CONSTANTS == <<Null, Boolean(TRUE), Boolean(FALSE)>>

NULL_CONSTANT_INDEX == 0

TRUE_CONSTANT_INDEX == 1

FALSE_CONSTANT_INDEX == 2

(***************************************************************************)
(* CompilerContext (compiler.rs:34-189). Indices are the code's, from 0:    *)
(* constants[i] of the code is context.constants[i + 1] here.               *)
(***************************************************************************)
CompilerContext_new ==
    [constants |-> DEFAULT_CONSTANTS,
     int_const_indices |-> EmptyMap,
     str_const_indices |-> EmptyMap,
     global_dependencies |-> {}]

ConstantAt(ctx, index) == ctx.constants[index + 1]

\* returns the context and the index of the pushed object
add_constant_no_check(ctx, object) ==
    [context |-> [ctx EXCEPT !.constants = Append(@, object)],
     index |-> Len(ctx.constants)]

\* an add_constant that forgets to record a new integer in int_const_indices
add_constant_forgetful(ctx, object) ==
    IF object.t = "String" /\ object.s \in DOMAIN ctx.str_const_indices
    THEN [context |-> ctx, index |-> ctx.str_const_indices[object.s]]
    ELSE IF object.t = "String"
    THEN LET r == add_constant_no_check(ctx, object)
         IN [r EXCEPT !.context.str_const_indices = MapInsert(@, object.s, r.index)]
    ELSE add_constant_no_check(ctx, object)

add_constant(ctx, object) ==
    CASE object.t = "Integer" ->
            IF object.v \in DOMAIN ctx.int_const_indices
            THEN [context |-> ctx, index |-> ctx.int_const_indices[object.v]]
            ELSE LET r == add_constant_no_check(ctx, object)
                 IN [r EXCEPT !.context.int_const_indices = MapInsert(@, object.v, r.index)]
      [] object.t = "String" ->
            IF object.s \in DOMAIN ctx.str_const_indices
            THEN [context |-> ctx, index |-> ctx.str_const_indices[object.s]]
            ELSE LET r == add_constant_no_check(ctx, object)
                 IN [r EXCEPT !.context.str_const_indices = MapInsert(@, object.s, r.index)]
      [] OTHER -> add_constant_no_check(ctx, object)

\* the number of add_constant calls a run makes
MaxCalls == 4

\* the objects the compiler hands to add_constant: integer, float and string
\* literals, identifiers, Model(index) and Function(index)
ConstantObjects ==
    {Integer(v) : v \in {0, 7, -1}} \cup {String(s) : s \in {"", "x", "7"}}
        \cup {Float(1), ModelObject(0), FunctionObject(0)}

ConstInit ==
    /\ context = CompilerContext_new
    /\ constant_calls = <<>>

AddConstant ==
    /\ Len(constant_calls) < MaxCalls
    /\ \E object \in ConstantObjects :
          LET r == add_constant(context, object)
          IN /\ context' = r.context
             /\ constant_calls' = Append(constant_calls, [object |-> object, index |-> r.index])
    /\ UNCHANGED NotConst

\* a fresh CompilerContext (compile(), compiler.rs:838)
NewContext ==
    /\ constant_calls # <<>>
    /\ context' = CompilerContext_new
    /\ constant_calls' = <<>>
    /\ UNCHANGED NotConst

ConstNext ==
    \/ AddConstant
    \/ NewContext

\* C4: constant interning. Over every sequence of add_constant calls on one
\* context: equal Integer (String) objects were given one index, different
\* Integer or String objects different indices, every returned index holds the
\* object it was returned for, indices 0, 1, 2 hold Null, true, false and no
\* Integer or String was given one of them.
ConstantInterning ==
    /\ ConstantAt(context, NULL_CONSTANT_INDEX) = Null
    /\ ConstantAt(context, TRUE_CONSTANT_INDEX) = Boolean(TRUE)
    /\ ConstantAt(context, FALSE_CONSTANT_INDEX) = Boolean(FALSE)
    /\ \A i \in 1..Len(constant_calls) :
          LET c == constant_calls[i]
          IN /\ c.index < Len(context.constants)
             /\ ConstantAt(context, c.index) = c.object
             /\ c.object.t \in {"Integer", "String"} => c.index >= Len(DEFAULT_CONSTANTS)
             /\ \A j \in 1..Len(constant_calls) :
                   LET d == constant_calls[j]
                   IN /\ c.object.t \in {"Integer", "String"} /\ d.object = c.object
                            => d.index = c.index
                      /\ c.object.t \in {"Integer", "String"}
                            /\ d.object.t \in {"Integer", "String"} /\ d.object # c.object
                            => d.index # c.index

\* an integer and a string each added twice, with other objects in between
ConstantInterningWitness ==
    /\ Len(constant_calls) = 4
    /\ constant_calls[1].object = Integer(7)
    /\ constant_calls[2].object = String("7")
    /\ constant_calls[3].object = String("7")
    /\ constant_calls[4].object = Integer(7)

(***************************************************************************)
(* Model (program.rs:47-74). property_indices: name -> slot, from 0.        *)
(***************************************************************************)
Model_new ==
    [property_indices |-> EmptyMap, version |-> <<>>, functions |-> EmptyMap,
     property_names |-> <<>>]

\* an add_property that takes the slot after the push
add_property_after_push(m, property_name) ==
    IF property_name \in DOMAIN m.property_indices
    THEN [model |-> m, returned |-> FALSE]
    ELSE [model |-> [m EXCEPT !.property_names = Append(@, property_name),
                              !.property_indices =
                                   MapInsert(@, property_name, Len(m.property_names) + 1)],
          returned |-> TRUE]

add_property(m, property_name) ==
    IF property_name \in DOMAIN m.property_indices
    THEN [model |-> m, returned |-> FALSE]
    ELSE [model |-> [m EXCEPT !.property_indices =
                                   MapInsert(@, property_name, Cardinality(DOMAIN @)),
                              !.property_names = Append(@, property_name)],
          returned |-> TRUE]

\* the property names a model definition or a serialized model may list
PropertyNames == {"x", "y", "z", "w"}

ModelInit ==
    /\ model = Model_new
    /\ property_call = [called |-> FALSE, name |-> "", returned |-> FALSE, before |-> Model_new]

\* one add_property call of compile_model_definition (compiler.rs:615-619) or
\* of Model::deserialize (program.rs:98-101)
AddProperty ==
    /\ \E name \in PropertyNames :
          LET r == add_property(model, name)
          IN /\ model' = r.model
             /\ property_call' = [called |-> TRUE, name |-> name,
                                  returned |-> r.returned, before |-> model]
    /\ UNCHANGED NotModel

\* Model::new() for the next model (compiler.rs:613, program.rs:95)
NewModel ==
    /\ property_call.called
    /\ model' = Model_new
    /\ property_call' = [called |-> FALSE, name |-> "", returned |-> FALSE, before |-> Model_new]
    /\ UNCHANGED NotModel

ModelNext ==
    \/ AddProperty
    \/ NewModel

\* C5: property table. In every Model built by add_property calls,
\* property_indices[property_names[k]] = k for every slot k, both tables have the
\* same size, and a call with a name already present returned false and changed
\* nothing, while any other call returned true and appended the name.
PropertyTable ==
    /\ \A k \in 1..Len(model.property_names) :
          /\ model.property_names[k] \in DOMAIN model.property_indices
          /\ model.property_indices[model.property_names[k]] = k - 1
    /\ Cardinality(DOMAIN model.property_indices) = Len(model.property_names)
    /\ property_call.called =>
          IF property_call.name \in DOMAIN property_call.before.property_indices
          THEN ~property_call.returned /\ model = property_call.before
          ELSE /\ property_call.returned
               /\ model.property_names =
                     Append(property_call.before.property_names, property_call.name)

\* a duplicate name rejected after three properties were added
PropertyTableWitness ==
    /\ Len(model.property_names) = 3
    /\ property_call.called
    /\ ~property_call.returned
    /\ property_call.name = model.property_names[2]

(***************************************************************************)
(* Instructions (runtime::opcode): an opcode and its operand.               *)
(***************************************************************************)
to_instruction(opcode, operand) == [opcode |-> opcode, operand |-> operand]

\* Option::None of a usize
None == -1

\* Position::none(), and a token's position: its line
Position_none == 0

(***************************************************************************)
(* FunctionState (function_state.rs). Instruction indices are the code's,   *)
(* from 0: instructions[i] of the code is func_state.instructions[i + 1].   *)
(***************************************************************************)
enter_scope(fs) == [fs EXCEPT !.scopes = Append(@, EmptyMap)]

\* an exit_scope that leaves the scope on the stack
exit_scope_keep(fs) == fs

exit_scope(fs) ==
    [fs EXCEPT !.scopes = IF @ = <<>> THEN @ ELSE SubSeq(@, 1, Len(@) - 1)]

FunctionState_new ==
    enter_scope([is_instance |-> FALSE,
                 parameter_count |-> 0,
                 local_variable_count |-> 0,
                 current_depth |-> 0,
                 rescue_position |-> 0,
                 scopes |-> <<>>,
                 break_scopes |-> <<>>,
                 instructions |-> <<>>,
                 positions |-> <<>>])

get_last_position(fs) ==
    With(fs.positions,
         LAMBDA positions : IF positions # <<>> THEN positions[Len(positions)]
                            ELSE Position_none)

\* the index emit returns is get_next_instruction_index of the state before
emit(fs, instruction, position) ==
    [fs EXCEPT !.instructions = Append(@, instruction),
               !.positions = Append(@, position)]

emit_opcode(fs, opcode, position) == emit(fs, to_instruction(opcode, 0), position)

\* emit(instruction, self.get_last_position())
emit_at_last_position(fs, instruction) ==
    With(fs, LAMBDA f : emit(f, instruction, get_last_position(f)))

emit_opcode_without_position(fs, opcode) ==
    With(fs, LAMBDA f : emit_opcode(f, opcode, get_last_position(f)))

get_next_instruction_index(fs) == Len(fs.instructions)

LastOpcode(fs) ==
    With(fs.instructions, LAMBDA instructions : instructions[Len(instructions)].opcode)

\* a remove_pop_or_push_null that pushes no Null after a local statement
remove_pop_or_push_null_after_local(fs) ==
    With(fs, LAMBDA f :
        IF Len(f.instructions) = 0
        THEN emit(f, to_instruction("PushConstant", NULL_CONSTANT_INDEX),
                  get_last_position(f))
        ELSE CASE LastOpcode(f) = "Pop" ->
                      [f EXCEPT !.instructions = SubSeq(@, 1, Len(@) - 1),
                                !.positions = SubSeq(@, 1, Len(@) - 1)]
               [] LastOpcode(f) \in {"Return", "LocalInit"} -> f
               [] OTHER ->
                      emit(f, to_instruction("PushConstant", NULL_CONSTANT_INDEX),
                           get_last_position(f)))

remove_pop_or_push_null(fs) ==
    With(fs, LAMBDA f :
        IF Len(f.instructions) = 0
        THEN emit(f, to_instruction("PushConstant", NULL_CONSTANT_INDEX), get_last_position(f))
        ELSE CASE LastOpcode(f) = "Pop" ->
                     [f EXCEPT !.instructions = SubSeq(@, 1, Len(@) - 1),
                               !.positions = SubSeq(@, 1, Len(@) - 1)]
               [] LastOpcode(f) = "Return" -> f
               [] OTHER ->
                     emit(f, to_instruction("PushConstant", NULL_CONSTANT_INDEX),
                          get_last_position(f)))

\* instructions.last().unwrap() of line 94 panics on an empty list, which takes a
\* lone Pop: no statement of this model leaves one (an expression emits at least
\* one instruction before its Pop)
emit_return(fs, position) ==
    With(remove_pop_or_push_null(fs), LAMBDA a :
        IF Len(a.instructions) = 0 \/ LastOpcode(a) # "Return"
        THEN emit_opcode(a, "Return", position)
        ELSE a)

\* an emit_break that emits its Jump whatever the break-scope stack holds
emit_break_always(fs, position) ==
    With(fs, LAMBDA f :
        With(emit_opcode(f, "Jump", position), LAMBDA a :
            IF Len(f.break_scopes) > 0
            THEN [a EXCEPT !.break_scopes[Len(f.break_scopes)] =
                               Append(@, get_next_instruction_index(f))]
            ELSE a))

emit_break(fs, position) ==
    With(fs, LAMBDA f :
        IF Len(f.break_scopes) = 0
        THEN f
        ELSE [emit_opcode(f, "Jump", position)
                  EXCEPT !.break_scopes[Len(f.break_scopes)] =
                             Append(@, get_next_instruction_index(f))])

replace_instruction(fs, index, instruction) ==
    [fs EXCEPT !.instructions[index + 1] = instruction]

RECURSIVE find_local_from(_, _)
find_local_from(scopes, name) ==
    IF scopes = <<>> THEN None
    ELSE With(scopes[Len(scopes)], LAMBDA scope :
             IF name \in DOMAIN scope
             THEN scope[name]
             ELSE find_local_from(SubSeq(scopes, 1, Len(scopes) - 1), name))

\* scopes.iter().rev(): the innermost scope first
find_local(fs, name) == With(fs.scopes, LAMBDA scopes : find_local_from(scopes, name))

enter_break_scope(fs) == [fs EXCEPT !.break_scopes = Append(@, <<>>)]

\* the loop of lines 138-141 over the popped break scope
replace_all(instructions, indices, instruction) ==
    [i \in 1..Len(instructions) |->
        IF \E k \in 1..Len(indices) : indices[k] + 1 = i
        THEN instruction ELSE instructions[i]]

\* an exit_break_scope that drops the break scope and patches nothing
exit_break_scope_unpatched(fs) ==
    [fs EXCEPT !.break_scopes = SubSeq(@, 1, Len(@) - 1)]

exit_break_scope(fs) ==
    With(fs, LAMBDA f :
        [f EXCEPT !.break_scopes = SubSeq(@, 1, Len(@) - 1),
                  !.instructions =
                      replace_all(@, f.break_scopes[Len(f.break_scopes)],
                                  to_instruction("Jump", get_next_instruction_index(f)))])

\* a define_local that gives a name the slot a left scope has freed
define_local_reusing(fs, name) ==
    With(fs, LAMBDA f :
        IF f.scopes = <<>> \/ name \in DOMAIN f.scopes[Len(f.scopes)]
        THEN [func_state |-> f, index |-> None]
        ELSE With(Cardinality(UNION {{<<d, n>> : n \in DOMAIN f.scopes[d]} :
                                         d \in 1..Len(f.scopes)}), LAMBDA slot :
                 [func_state |->
                      [f EXCEPT !.scopes[Len(f.scopes)] = MapInsert(@, name, slot),
                                !.local_variable_count = @ + 1],
                  index |-> slot]))

\* returns the state and the index, None when the innermost scope has the name
\* (or there is no scope)
define_local(fs, name) ==
    With(fs, LAMBDA f :
        IF f.scopes = <<>> \/ name \in DOMAIN f.scopes[Len(f.scopes)]
        THEN [func_state |-> f, index |-> None]
        ELSE [func_state |->
                  [f EXCEPT !.scopes[Len(f.scopes)] =
                                MapInsert(@, name, f.local_variable_count),
                            !.local_variable_count = @ + 1],
              index |-> f.local_variable_count])

define_anonymous_local(fs) ==
    With(fs, LAMBDA f :
        [func_state |-> [f EXCEPT !.local_variable_count = @ + 1],
         index |-> f.local_variable_count])

(***************************************************************************)
(* Expressions of the AST (intermediate::ast::Expression), but for the      *)
(* if-expression, which the specification compiles in steps (BeginIf,       *)
(* ElseDone, EndIf). Every token of a statement stands on the statement's   *)
(* line.                                                                    *)
(***************************************************************************)
IntegerExpression(value) == [k |-> "Integer", value |-> value]

StringExpression(value) == [k |-> "String", value |-> value]

BooleanExpression(value) == [k |-> "Boolean", value |-> value]

NullExpression == [k |-> "Null"]

IdentifierExpression(name) == [k |-> "Identifier", name |-> name]

ThisExpression == [k |-> "This"]

InfixExpression(left, infix, right) ==
    [k |-> "Infix", infix |-> infix, left |-> left, right |-> right]

PrefixExpression(prefix, right) == [k |-> "Prefix", prefix |-> prefix, right |-> right]

CallExpression(function, parameters) ==
    [k |-> "Call", function |-> function, parameters |-> parameters]

ArrayExpression(values) == [k |-> "Array", values |-> values]

InstanceGetExpression(instance, index) ==
    [k |-> "InstanceGet", instance |-> instance, index |-> index]

IndexGetExpression(instance, index) ==
    [k |-> "IndexGet", instance |-> instance, index |-> index]

\* the operand of the Operation instruction of an infix token, None for a token
\* that is no operation (the OPERATION_* codes of runtime::opcode)
get_operation_instruction_by_token(infix) ==
    CASE infix \in {"Plus", "PlusAssign"} -> 0
      [] infix \in {"Minus", "MinusAssign"} -> 1
      [] infix \in {"Star", "StarAssign"} -> 2
      [] infix \in {"Slash", "SlashAssign"} -> 3
      [] infix \in {"Percent", "PercentAssign"} -> 4
      [] infix \in {"Equal", "NotEqual"} -> 5
      [] infix = "Greater" -> 6
      [] infix = "Less" -> 7
      [] infix = "GreaterEqual" -> 8
      [] infix = "LessEqual" -> 9
      [] infix = "And" -> 257
      [] infix = "Or" -> 258
      [] OTHER -> None

(***************************************************************************)
(* CompilerEnv (compiler.rs:246-768) on the state of one function's         *)
(* compilation: cs = [func_state, context, locals, errors], where locals is *)
(* env.locals (the module scope) and errors is env.errors.                  *)
(***************************************************************************)
Emit(cs, instruction, position) ==
    [cs EXCEPT !.func_state = emit(@, instruction, position)]

push_error(cs, message) == [cs EXCEPT !.errors = Append(@, message)]

\* the global case of lines 304-306 and 332-334
EmitGlobal(cs, opcode, identifier, position) ==
    With(cs, LAMBDA c :
        With(add_constant(c.context, String(identifier)), LAMBDA r :
            Emit([c EXCEPT !.context =
                      [r.context EXCEPT !.global_dependencies = @ \cup {r.index}]],
                 to_instruction(opcode, r.index), position)))

\* an identifier read that looks at the module scope before the function's scopes
compile_identifier_module_first(cs, identifier, position) ==
    With(cs, LAMBDA c :
        IF identifier \in DOMAIN c.locals
        THEN Emit(c, to_instruction("ContextGet", c.locals[identifier]), position)
        ELSE IF find_local(c.func_state, identifier) # None
        THEN Emit(c, to_instruction("LocalGet", find_local(c.func_state, identifier)), position)
        ELSE EmitGlobal(c, "GlobalGet", identifier, position))

compile_identifier_expression(cs, identifier, position) ==
    With(cs, LAMBDA c :
        IF find_local(c.func_state, identifier) # None
        THEN Emit(c, to_instruction("LocalGet", find_local(c.func_state, identifier)), position)
        ELSE IF identifier \in DOMAIN c.locals
        THEN Emit(c, to_instruction("ContextGet", c.locals[identifier]), position)
        ELSE EmitGlobal(c, "GlobalGet", identifier, position))

compile_assign_identifier(cs, identifier, position) ==
    With(cs, LAMBDA c :
        IF find_local(c.func_state, identifier) # None
        THEN Emit(c, to_instruction("LocalSet", find_local(c.func_state, identifier)), position)
        ELSE IF identifier \in DOMAIN c.locals
        THEN Emit(c, to_instruction("ContextSet", c.locals[identifier]), position)
        ELSE EmitGlobal(c, "GlobalSet", identifier, position))

RECURSIVE compile_expression(_, _, _)
RECURSIVE compile_expressions(_, _, _)
RECURSIVE compile_assign_expression_left_part(_, _, _)

compile_expressions(cs, expressions, position) ==
    With(expressions, LAMBDA es :
        IF es = <<>> THEN cs
        ELSE compile_expressions(compile_expression(cs, Head(es), position),
                                 Tail(es), position))

compile_indexed_set(cs, instance, index, op_code, position) ==
    LET a == compile_expression(cs, instance, position)
        b == compile_expression(a, index, position)
    IN Emit(b, to_instruction(op_code, 0), position)

compile_assign_expression_left_part(cs, infix_expression, position) ==
    LET left == infix_expression.left
    IN CASE left.k = "Identifier" -> compile_assign_identifier(cs, left.name, position)
         [] left.k = "InstanceGet" ->
               compile_indexed_set(cs, left.instance, left.index, "InstanceSet", position)
         [] left.k = "IndexGet" ->
               compile_indexed_set(cs, left.instance, left.index, "IndexSet", position)
         [] OTHER -> push_error(cs, "can not assign")

\* a compound assignment that computes the value and stores nothing
compile_infix_expression_no_store(cs, e, position) ==
    IF e.infix = "Assign"
    THEN compile_assign_expression_left_part(
             compile_expression(cs, e.right, position), e, position)
    ELSE LET operand == get_operation_instruction_by_token(e.infix)
         IN IF operand # None
            THEN LET l == compile_expression(cs, e.left, position)
                     r == compile_expression(l, e.right, position)
                     o == Emit(r, to_instruction("Operation", operand), position)
                 IN IF e.infix = "NotEqual"
                    THEN Emit(o, to_instruction("Not", 0), position)
                    ELSE o
            ELSE push_error(cs, "unknown operation")

compile_infix_expression(cs, e, position) ==
    IF e.infix = "Assign"
    THEN compile_assign_expression_left_part(
             compile_expression(cs, e.right, position), e, position)
    ELSE LET operand == get_operation_instruction_by_token(e.infix)
             a == IF operand # None
                  THEN LET l == compile_expression(cs, e.left, position)
                           r == compile_expression(l, e.right, position)
                           o == Emit(r, to_instruction("Operation", operand), position)
                       IN IF e.infix = "NotEqual"
                          THEN Emit(o, to_instruction("Not", 0), position)
                          ELSE o
                  ELSE push_error(cs, "unknown operation")
         IN IF e.infix \in {"PlusAssign", "MinusAssign", "StarAssign", "SlashAssign",
                            "PercentAssign"}
            THEN compile_assign_expression_left_part(a, e, position)
            ELSE a

compile_prefix_expression(cs, e, position) ==
    LET a == compile_expression(cs, e.right, position)
    IN CASE e.prefix = "Minus" -> Emit(a, to_instruction("Negative", 0), position)
         [] e.prefix = "Not" -> Emit(a, to_instruction("Not", 0), position)
         [] OTHER -> push_error(a, "unknown operation")

AddConstantAndPush(cs, object, position) ==
    With(cs, LAMBDA c :
        With(add_constant(c.context, object), LAMBDA r :
            Emit([c EXCEPT !.context = r.context],
                 to_instruction("PushConstant", r.index), position)))

compile_expression(cs, e, position) ==
    CASE e.k = "Integer" -> AddConstantAndPush(cs, Integer(e.value), position)
      [] e.k = "Float" -> AddConstantAndPush(cs, Float(e.value), position)
      [] e.k = "String" -> AddConstantAndPush(cs, String(e.value), position)
      [] e.k = "Boolean" ->
            Emit(cs, to_instruction("PushConstant",
                     IF e.value THEN TRUE_CONSTANT_INDEX ELSE FALSE_CONSTANT_INDEX), position)
      [] e.k = "Null" ->
            Emit(cs, to_instruction("PushConstant", NULL_CONSTANT_INDEX), position)
      [] e.k = "Array" ->
            Emit(compile_expressions(cs, e.values, position),
                 to_instruction("Array", Len(e.values)), position)
      [] e.k = "Identifier" -> compile_identifier_expression(cs, e.name, position)
      [] e.k = "Prefix" -> compile_prefix_expression(cs, e, position)
      [] e.k = "Infix" -> compile_infix_expression(cs, e, position)
      [] e.k = "Call" ->
            Emit(compile_expressions(compile_expression(cs, e.function, position),
                                     e.parameters, position),
                 to_instruction("Call", Len(e.parameters)), position)
      [] e.k = "InstanceGet" ->
            compile_indexed_set(cs, e.instance, e.index, "InstanceGet", position)
      [] e.k = "IndexGet" ->
            compile_indexed_set(cs, e.instance, e.index, "IndexGet", position)
      [] e.k = "This" -> Emit(cs, to_instruction("LocalGet", 0), position)

(***************************************************************************)
(* compile_statement (compiler.rs:533-566): the statements that hold no     *)
(* other statement, each from the current_depth += 1 of line 534 to the     *)
(* current_depth -= 1 of line 565.                                          *)
(***************************************************************************)
EnterStatement(cs) == [cs EXCEPT !.func_state.current_depth = @ + 1]

LeaveStatement(cs) == [cs EXCEPT !.func_state.current_depth = @ - 1]

\* Option<Expression>::None of a local without a value
NoValue == [k |-> "None"]

StatementReturn(cs, position) ==
    LeaveStatement([EnterStatement(cs) EXCEPT !.func_state = emit_return(@, position)])

StatementExpression(cs, expression, position) ==
    LET a == compile_expression(EnterStatement(cs), expression, position)
    IN LeaveStatement([a EXCEPT !.func_state = emit_opcode_without_position(@, "Pop")])

\* `local name [= value]`, one variable
StatementLocal(cs, name, value, position) ==
    With(EnterStatement(cs), LAMBDA a :
        With(define_local(a.func_state, name), LAMBDA d :
            LeaveStatement(
                IF d.index # None
                THEN IF value # NoValue
                     THEN Emit(compile_expression([a EXCEPT !.func_state = d.func_state],
                                                  value, position),
                               to_instruction("LocalInit", d.index), position)
                     ELSE [a EXCEPT !.func_state = d.func_state]
                ELSE push_error([a EXCEPT !.func_state = d.func_state],
                                "variable already exists"))))

StatementBreak(cs, position) ==
    LeaveStatement([EnterStatement(cs) EXCEPT !.func_state = emit_break(@, position)])

\* a rescue that is refused only below the first nested level
StatementRescue_deeper(cs, position) ==
    With(EnterStatement(cs), LAMBDA a :
        LeaveStatement(
            IF a.func_state.current_depth > 2
            THEN push_error(a, "rescue can only in the layer of function")
            ELSE With(emit_return(a.func_state, position), LAMBDA r :
                     [a EXCEPT !.func_state =
                         [r EXCEPT !.rescue_position = get_next_instruction_index(r)]])))

StatementRescue(cs, position) ==
    With(EnterStatement(cs), LAMBDA a :
        LeaveStatement(
            IF a.func_state.current_depth > 1
            THEN push_error(a, "rescue can only in the layer of function")
            ELSE With(emit_return(a.func_state, position), LAMBDA r :
                     [a EXCEPT !.func_state =
                         [r EXCEPT !.rescue_position = get_next_instruction_index(r)]])))

(***************************************************************************)
(* The statements that hold statements. compile_if_expression (435-466) as  *)
(* the expression of a Statement::Expression, and compile_for_statement     *)
(* (487-531), cut where they call compile_statement for the statements of   *)
(* a body. What the Rust frame keeps across the body is the block record.   *)
(***************************************************************************)
\* lines 534, 436-441 (an else part follows) or 436-438, 449-456 (none)
IfBegin(cs, condition, has_else, position) ==
    With(compile_expression(EnterStatement(cs), condition, position), LAMBDA a :
    With(emit_opcode_without_position(a.func_state, "JumpIf"), LAMBDA j :
        IF has_else
        THEN [cs |-> [a EXCEPT !.func_state = enter_scope(j)],
              block |-> [kind |-> "if", part |-> "false",
                         true_part_instruction_index |->
                             get_next_instruction_index(a.func_state),
                         jump_to_end_instruction_index |-> None]]
        ELSE With(emit_at_last_position(j, to_instruction("PushConstant",
                                                          NULL_CONSTANT_INDEX)), LAMBDA n :
             With(emit_opcode_without_position(n, "Jump"), LAMBDA e :
                 [cs |-> [a EXCEPT !.func_state =
                             enter_scope(replace_instruction(e,
                                 get_next_instruction_index(a.func_state),
                                 to_instruction("JumpIf", get_next_instruction_index(e))))],
                  block |-> [kind |-> "if", part |-> "true",
                             true_part_instruction_index |->
                                 get_next_instruction_index(a.func_state),
                             jump_to_end_instruction_index |->
                                 get_next_instruction_index(n)]]))))

\* lines 445-456: the else part is compiled, the then part starts
IfElseDone(cs, block) ==
    With(cs, LAMBDA c :
    With(remove_pop_or_push_null(exit_scope(c.func_state)), LAMBDA x :
    With(emit_opcode_without_position(x, "Jump"), LAMBDA e :
        [cs |-> [c EXCEPT !.func_state =
                    enter_scope(replace_instruction(e, block.true_part_instruction_index,
                        to_instruction("JumpIf", get_next_instruction_index(e))))],
         block |-> [block EXCEPT !.part = "true",
                                 !.jump_to_end_instruction_index =
                                     get_next_instruction_index(x)]])))

\* lines 460-464, then the Pop of line 540 and line 565
IfEnd(cs, block) ==
    With(cs, LAMBDA c :
    With(remove_pop_or_push_null(exit_scope(c.func_state)), LAMBDA x :
        LeaveStatement([c EXCEPT !.func_state =
            emit_opcode_without_position(
                replace_instruction(x, block.jump_to_end_instruction_index,
                    to_instruction("Jump", get_next_instruction_index(x))),
                "Pop")])))

\* lines 496-502: the enumerable and the iterator go to their locals
ForPrepare(fs, enumerable_local_index, iterator_local_index, zero_index) ==
    LET f2 == emit_at_last_position(fs, to_instruction("LocalSet", enumerable_local_index))
        f3 == emit_opcode_without_position(f2, "Pop")
        f4 == emit_at_last_position(f3, to_instruction("PushConstant", zero_index))
        f5 == emit_at_last_position(f4, to_instruction("LocalSet", iterator_local_index))
    IN emit_opcode_without_position(f5, "Pop")

\* lines 509-516: the head of the loop
ForHead(fs, enumerable_local_index, local_variable_index, position) ==
    LET f7 == emit_at_last_position(fs, to_instruction("ForNext", enumerable_local_index))
        f8 == emit_opcode_without_position(f7, "JumpIf")
        f9 == emit(f8, to_instruction("LocalSet", local_variable_index), position)
    IN emit_opcode_without_position(f9, "Pop")

\* lines 534, 488-516
ForBegin(cs, identifier, enumerable, position) ==
    With(EnterStatement(cs), LAMBDA s0 :
    With(define_anonymous_local(s0.func_state), LAMBDA en :
    With(define_anonymous_local(en.func_state), LAMBDA it :
    With(compile_expression(
             [s0 EXCEPT !.func_state = enter_break_scope(enter_scope(it.func_state))],
             enumerable, position), LAMBDA s1 :
    With(add_constant(s1.context, Integer(0)), LAMBDA zero :
    With(define_local(ForPrepare(s1.func_state, en.index, it.index, zero.index),
                      identifier), LAMBDA lv :
        [cs |-> [s1 EXCEPT !.func_state =
                              ForHead(lv.func_state, en.index, lv.index, position),
                           !.context = zero.context],
         block |-> [kind |-> "for",
                    enumerable_local_index |-> en.index,
                    iterator_local_index |-> it.index,
                    local_variable_index |-> lv.index,
                    start_loop_position |-> get_next_instruction_index(lv.func_state),
                    jump_to_end_if_true_instruction_index |->
                        get_next_instruction_index(lv.func_state) + 1]]))))))

\* lines 521-529, 565
ForEnd(cs, block) ==
    With(cs, LAMBDA c :
    With(emit_at_last_position(
             emit_at_last_position(c.func_state,
                                   to_instruction("Iterate", block.iterator_local_index)),
             to_instruction("Jump", block.start_loop_position)), LAMBDA f2 :
        LeaveStatement([c EXCEPT !.func_state =
            exit_scope(exit_break_scope(
                replace_instruction(f2, block.jump_to_end_if_true_instruction_index,
                    to_instruction("JumpIf", get_next_instruction_index(f2)))))])))

\* compile_function_definition_base, lines 643-651: the parameters
RECURSIVE DefineParameters(_, _)
DefineParameters(cs, parameters) ==
    With(parameters, LAMBDA ps :
        IF ps = <<>> THEN cs
        ELSE With(IF Head(ps) = "this"
                  THEN [cs EXCEPT !.func_state.is_instance = TRUE]
                  ELSE cs, LAMBDA a :
             With(define_local(a.func_state, Head(ps)), LAMBDA d :
                 DefineParameters(
                     IF d.index = None
                     THEN push_error([a EXCEPT !.func_state = d.func_state],
                                     "parameter already exists")
                     ELSE [a EXCEPT !.func_state = d.func_state],
                     Tail(ps)))))

\* lines 641-653
FunctionBegin(ctx, locals, parameters) ==
    [DefineParameters([func_state |-> FunctionState_new, context |-> ctx,
                       locals |-> locals, errors |-> <<>>], parameters)
         EXCEPT !.func_state.parameter_count = Len(parameters)]

\* line 659
FunctionEnd(cs) ==
    [cs EXCEPT !.func_state = With(@, LAMBDA f : emit_return(f, get_last_position(f)))]

(***************************************************************************)
(* Compiling one function, statement by statement. A step is one statement  *)
(* that holds no other, or the part of an if / for before, between or after *)
(* its bodies. blocks is the Rust call stack: one record per if / for whose *)
(* body is being compiled.                                                  *)
(***************************************************************************)
MaxStatements == 3

MaxNesting == 2

\* x is a parameter, g is a local of the module, p is neither
Names == {"x", "g", "p"}

ModuleLocals == MapInsert(EmptyMap, "g", 0)

ParameterLists == {<<"x">>}

StatementExpressions == {IdentifierExpression("p"), IntegerExpression(7)}

LocalValues == {NoValue, IntegerExpression(7)}

CS == [func_state |-> func_state, context |-> context,
       locals |-> env.locals, errors |-> env.errors]

SetCS(cs) ==
    \E c \in {cs} :
        /\ func_state' = c.func_state
        /\ context' = c.context
        /\ env' = [locals |-> c.locals, errors |-> c.errors]

\* what an identifier read is compiled to: the scope it is found in and the
\* index there, or the name itself for a global
Binding(cs, name) ==
    With(compile_identifier_expression(cs, name, Position_none), LAMBDA r :
        With(r.func_state.instructions[Len(r.func_state.instructions)], LAMBDA instruction :
            IF instruction.opcode = "GlobalGet"
            THEN [opcode |-> "GlobalGet",
                  global |-> ConstantAt(r.context, instruction.operand)]
            ELSE instruction))

Bindings(cs) == [n \in Names |-> Binding(cs, n)]

FindLocals(fs) == [n \in Names |-> find_local(fs, n)]

\* the state a statement step started from
Before(kind) ==
    [kind |-> kind, func_state |-> func_state, errors |-> env.errors,
     nesting |-> Len(blocks), bindings |-> Bindings(CS),
     find_locals |-> FindLocals(func_state), defined |-> {}]

\* the step that leaves a body: the state the if / for was entered from
BeforeBody(kind, block) ==
    [kind |-> kind, func_state |-> func_state, errors |-> env.errors,
     nesting |-> Len(blocks), bindings |-> block.bindings,
     find_locals |-> block.find_locals, defined |-> block.defined]

\* the locals the open bodies have defined so far: name and index
Define(bs, name, index) ==
    [i \in 1..Len(bs) |->
        [bs[i] EXCEPT !.defined = @ \cup {[name |-> name, index |-> index]}]]

Ghost(block, defined) ==
    [b |-> block, bindings |-> Bindings(CS),
     find_locals |-> FindLocals(func_state), defined |-> defined]

\* jumps: the index of the Jump of each break compiled inside a for, and how
\* many blocks were open up to its innermost for; loops: the start, the JumpIf
\* and the exit of each for whose end has been compiled
NoBreaks == [jumps |-> {}, loops |-> {}]

FuncIdle ==
    /\ func_state = FunctionState_new
    /\ env = [locals |-> EmptyMap, errors |-> <<>>]
    /\ blocks = <<>>
    /\ line = 0
    /\ last = [kind |-> "none"]
    /\ has_rescue = FALSE
    /\ breaks = NoBreaks

FuncInit ==
    \E parameters \in ParameterLists :
        \E cs \in {FunctionBegin(CompilerContext_new, ModuleLocals, parameters)} :
           /\ func_state = cs.func_state
           /\ context = cs.context
           /\ env = [locals |-> cs.locals, errors |-> cs.errors]
           /\ blocks = <<>>
           /\ line = 0
           /\ last = [kind |-> "begin"]
           /\ has_rescue = FALSE
           /\ breaks = NoBreaks
           /\ constant_calls = <<>>

Open == last.kind # "end" /\ line < MaxStatements

Return ==
    /\ Open
    /\ SetCS(StatementReturn(CS, line + 1))
    /\ last' = Before("return")
    /\ line' = line + 1
    /\ UNCHANGED <<blocks, has_rescue, breaks, NotFunction>>

ExpressionStatement ==
    /\ Open
    /\ \E expression \in StatementExpressions :
           SetCS(StatementExpression(CS, expression, line + 1))
    /\ last' = Before("expression")
    /\ line' = line + 1
    /\ UNCHANGED <<blocks, has_rescue, breaks, NotFunction>>

Local ==
    /\ Open
    /\ \E name \in Names, value \in LocalValues :
           \E cs \in {StatementLocal(CS, name, value, line + 1)} :
              /\ SetCS(cs)
              /\ blocks' = IF Len(cs.errors) = Len(env.errors)
                           THEN Define(blocks, name, func_state.local_variable_count)
                           ELSE blocks
    /\ last' = Before("local")
    /\ line' = line + 1
    /\ UNCHANGED <<has_rescue, breaks, NotFunction>>

\* the blocks open up to the innermost for, 0 outside every for
InnermostFor ==
    IF \E i \in 1..Len(blocks) : blocks[i].b.kind = "for"
    THEN CHOOSE i \in 1..Len(blocks) :
             /\ blocks[i].b.kind = "for"
             /\ \A k \in (i + 1)..Len(blocks) : blocks[k].b.kind # "for"
    ELSE 0

Break ==
    /\ Open
    /\ SetCS(StatementBreak(CS, line + 1))
    /\ last' = Before("break")
    /\ line' = line + 1
    /\ breaks' = IF InnermostFor # 0
                 THEN [breaks EXCEPT !.jumps = @ \cup
                          {[index |-> Len(func_state.instructions),
                            level |-> InnermostFor, line |-> line + 1]}]
                 ELSE breaks
    /\ UNCHANGED <<blocks, has_rescue, NotFunction>>

Rescue ==
    /\ Open
    /\ SetCS(StatementRescue(CS, line + 1))
    /\ last' = Before("rescue")
    /\ line' = line + 1
    /\ has_rescue' = (has_rescue \/ blocks = <<>>)
    /\ UNCHANGED <<blocks, breaks, NotFunction>>

If ==
    /\ Open
    /\ Len(blocks) < MaxNesting
    /\ \E condition \in {IdentifierExpression("x")}, has_else \in BOOLEAN :
           \E r \in {IfBegin(CS, condition, has_else, line + 1)} :
              /\ SetCS(r.cs)
              /\ blocks' = Append(blocks, Ghost(r.block, {}))
    /\ last' = Before("if")
    /\ line' = line + 1
    /\ UNCHANGED <<has_rescue, breaks, NotFunction>>

Else ==
    /\ last.kind # "end"
    /\ blocks # <<>>
    /\ LET top == blocks[Len(blocks)]
       IN /\ top.b.kind = "if"
          /\ top.b.part = "false"
          /\ \E r \in {IfElseDone(CS, top.b)} :
                /\ SetCS(r.cs)
                /\ blocks' = [blocks EXCEPT ![Len(blocks)].b = r.block]
          /\ last' = BeforeBody("else", top)
    /\ UNCHANGED <<line, has_rescue, breaks, NotFunction>>

EndIf ==
    /\ last.kind # "end"
    /\ blocks # <<>>
    /\ LET top == blocks[Len(blocks)]
       IN /\ top.b.kind = "if"
          /\ top.b.part = "true"
          /\ SetCS(IfEnd(CS, top.b))
          /\ last' = BeforeBody("endif", top)
    /\ blocks' = SubSeq(blocks, 1, Len(blocks) - 1)
    /\ UNCHANGED <<line, has_rescue, breaks, NotFunction>>

For ==
    /\ Open
    /\ Len(blocks) < MaxNesting
    /\ \E identifier \in Names, enumerable \in {IntegerExpression(7)} :
           \E r \in {ForBegin(CS, identifier, enumerable, line + 1)} :
              /\ SetCS(r.cs)
              /\ blocks' = Append(Define(blocks, identifier, r.block.local_variable_index),
                                  Ghost(r.block, {[name |-> identifier,
                                                   index |-> r.block.local_variable_index]}))
    /\ last' = Before("for")
    /\ line' = line + 1
    /\ UNCHANGED <<has_rescue, breaks, NotFunction>>

EndFor ==
    /\ last.kind # "end"
    /\ blocks # <<>>
    /\ LET top == blocks[Len(blocks)]
       IN /\ top.b.kind = "for"
          /\ SetCS(ForEnd(CS, top.b))
          /\ last' = BeforeBody("endfor", top)
          /\ breaks' = [breaks EXCEPT !.loops = @ \cup
                           {[start |-> top.b.start_loop_position,
                             jump_if |-> top.b.jump_to_end_if_true_instruction_index,
                             back_jump |-> Len(func_state.instructions) + 1,
                             level |-> Len(blocks)]}]
    /\ blocks' = SubSeq(blocks, 1, Len(blocks) - 1)
    /\ UNCHANGED <<line, has_rescue, NotFunction>>

EndFunction ==
    /\ last.kind # "end"
    /\ blocks = <<>>
    /\ SetCS(FunctionEnd(CS))
    /\ last' = Before("end")
    /\ UNCHANGED <<blocks, line, has_rescue, breaks, NotFunction>>

FunctionNext ==
    \/ Return
    \/ ExpressionStatement
    \/ Local
    \/ Break
    \/ Rescue
    \/ If
    \/ Else
    \/ EndIf
    \/ For
    \/ EndFor
    \/ EndFunction

(***************************************************************************)
(* C6. Scope isolation: when the body of an if branch or of a for has been  *)
(* compiled, no name resolves through find_local to a local defined in that *)
(* body (by a local statement or as the for variable), and every name has   *)
(* the find_local result and the binding (function scope, module scope or   *)
(* global) it had when the if / for was entered.                            *)
(***************************************************************************)
LeavesBody == last.kind \in {"else", "endif", "endfor"}

ScopeIsolation ==
    LeavesBody =>
        /\ \A d \in last.defined : find_local(func_state, d.name) # d.index
        /\ \A n \in Names :
              /\ find_local(func_state, n) = last.find_locals[n]
              /\ Binding(CS, n) = last.bindings[n]

\* a for body in which a local statement shadowed the parameter x has been left
ScopeIsolationWitness ==
    /\ last.kind = "endfor"
    /\ \E d \in last.defined : d.name = "x" /\ d.index # last.find_locals["x"]
    /\ last.bindings["x"].opcode = "LocalGet"
    /\ Cardinality(last.defined) > 1

(***************************************************************************)
(* C9. A break outside any loop is a no-op: outside every for the stack of  *)
(* break scopes is empty, and a break statement compiled while it is empty  *)
(* leaves the FunctionState as it was and reports no error.                 *)
(***************************************************************************)
InsideFor == \E i \in 1..Len(blocks) : blocks[i].b.kind = "for"

BreakOutsideLoop ==
    last.kind = "break" =>
        /\ ~InsideFor => Len(last.func_state.break_scopes) = 0
        /\ Len(last.func_state.break_scopes) = 0 =>
              /\ func_state = last.func_state
              /\ env.errors = last.errors

\* a break in an if branch outside every for, after some instructions
BreakOutsideLoopWitness ==
    /\ last.kind = "break"
    /\ blocks # <<>>
    /\ ~InsideFor
    /\ Len(last.func_state.break_scopes) = 0
    /\ Len(func_state.instructions) > 0

(***************************************************************************)
(* C10. A rescue statement inside an if branch or a for body, at any depth, *)
(* reports a compile error, emits nothing and leaves rescue_position as it  *)
(* was; a rescue statement of the function's own statement list reports no  *)
(* error.                                                                   *)
(***************************************************************************)
RescueTopLevelOnly ==
    last.kind = "rescue" =>
        IF last.nesting > 0
        THEN /\ env.errors = Append(last.errors, "rescue can only in the layer of function")
             /\ func_state = last.func_state
        ELSE env.errors = last.errors

\* a rescue in an if branch of the function's statement list
RescueTopLevelOnlyWitness ==
    /\ last.kind = "rescue"
    /\ last.nesting = 1
    /\ blocks[1].b.kind = "if"
    /\ Len(env.errors) = Len(last.errors) + 1

(***************************************************************************)
(* compile_statement and compile_function_definition_base on a whole        *)
(* function. A statement is a record: Return, Expression, Local, Break,     *)
(* Rescue, For (with its statements) or If (an if expression as a           *)
(* statement, with its true_part and its false_part, NoElse for none).      *)
(* `return e` is the expression statement e followed by Return, as          *)
(* emit_return expects (it drops the Pop).                                  *)
(***************************************************************************)
ReturnStatement == [k |-> "Return"]

ExpressionOf(expression) == [k |-> "Expression", expression |-> expression]

LocalStatement(name, value) == [k |-> "Local", name |-> name, value |-> value]

BreakStatement == [k |-> "Break"]

RescueStatement == [k |-> "Rescue"]

ForStatement(identifier, enumerable, statements) ==
    [k |-> "For", identifier |-> identifier, enumerable |-> enumerable,
     statements |-> statements]

\* the Option of the else part: None and Some(statements)
NoElse == <<>>

ElsePart(statements) == <<statements>>

IfStatement(condition, true_part, false_part) ==
    [k |-> "If", condition |-> condition, true_part |-> true_part,
     false_part |-> false_part]

RECURSIVE compile_statement(_, _, _)
RECURSIVE compile_statements(_, _, _)

compile_statements(cs, statements, position) ==
    With(statements, LAMBDA sts :
        IF sts = <<>> THEN cs
        ELSE compile_statements(compile_statement(cs, Head(sts), position),
                                Tail(sts), position))

compile_for_statement(cs, st, position) ==
    With(ForBegin(cs, st.identifier, st.enumerable, position), LAMBDA r :
        ForEnd(compile_statements(r.cs, st.statements, position), r.block))

compile_if_statement(cs, st, position) ==
    IF st.false_part = NoElse
    THEN With(IfBegin(cs, st.condition, FALSE, position), LAMBDA r :
             IfEnd(compile_statements(r.cs, st.true_part, position), r.block))
    ELSE With(IfBegin(cs, st.condition, TRUE, position), LAMBDA r :
         With(IfElseDone(compile_statements(r.cs, st.false_part[1], position), r.block),
              LAMBDA t :
                  IfEnd(compile_statements(t.cs, st.true_part, position), t.block)))

compile_statement(cs, st, position) ==
    CASE st.k = "Return" -> StatementReturn(cs, position)
      [] st.k = "Expression" -> StatementExpression(cs, st.expression, position)
      [] st.k = "Local" -> StatementLocal(cs, st.name, st.value, position)
      [] st.k = "Break" -> StatementBreak(cs, position)
      [] st.k = "Rescue" -> StatementRescue(cs, position)
      [] st.k = "For" -> compile_for_statement(cs, st, position)
      [] st.k = "If" -> compile_if_statement(cs, st, position)

\* the Function that Program keeps of a FunctionState (program.rs:114-122)
Function(fs) ==
    With(fs, LAMBDA f :
        [parameter_count |-> f.parameter_count,
         local_variable_count |-> f.local_variable_count,
         rescue_position |-> f.rescue_position,
         is_instance |-> f.is_instance,
         instructions |-> f.instructions])

\* the state after the function's statements and the final emit_return
compile_function_definition_base(ctx, locals, parameters, statements) ==
    FunctionEnd(compile_statements(FunctionBegin(ctx, locals, parameters),
                                   statements, 1))

(***************************************************************************)
(* Runtime objects and binary_operation (operation.rs). The objects of this *)
(* model are Null, Boolean, Integer, String, Function, Array and Instance;  *)
(* an Array is its elements, an Instance its model_index.                   *)
(***************************************************************************)
ArrayObject(elements) == [t |-> "Array", elements |-> elements]

InstanceObject(model_index) == [t |-> "Instance", model_index |-> model_index]

Ok(value) == [r |-> "Ok", value |-> value]

Err(message) == [r |-> "Err", message |-> message]

\* an integer division by zero is a Rust panic, not a RuntimeError
Panic(message) == [r |-> "Panic", message |-> message]

\* execute has not returned; no execute was started
StillRunning == [r |-> "Running"]

Idle == [r |-> "Idle"]

\* Object::to_bool
to_bool(object) ==
    CASE object.t = "Boolean" -> object.b
      [] object.t = "Integer" -> object.v # 0
      [] object.t = "Null" -> FALSE
      [] object.t = "String" -> object.s # ""
      [] OTHER -> TRUE

\* Rust's / and % truncate toward zero
TruncatedDiv(a, b) ==
    IF (a >= 0) = (b > 0) THEN (IF a >= 0 THEN a ELSE -a) \div (IF b > 0 THEN b ELSE -b)
    ELSE -((IF a >= 0 THEN a ELSE -a) \div (IF b > 0 THEN b ELSE -b))

\* An f64 is a fraction n / d in lowest terms with d > 0, an infinity or NaN.
\* The operands of every operation here are fractions.
RECURSIVE GCD(_, _)
GCD(a, b) == IF b = 0 THEN a ELSE GCD(b, a % b)

Fraction(n, d) ==
    With(GCD(IF n >= 0 THEN n ELSE -n, d), LAMBDA g :
        [k |-> "fraction", n |-> TruncatedDiv(n, g), d |-> d \div g])

Infinity(sign) == [k |-> "infinity", sign |-> sign]

NaN == [k |-> "NaN"]

\* value as f64
as_f64(value) == Fraction(value, 1)

f64_add(a, b) == Fraction(a.n * b.d + b.n * a.d, a.d * b.d)

f64_sub(a, b) == Fraction(a.n * b.d - b.n * a.d, a.d * b.d)

f64_mul(a, b) == Fraction(a.n * b.n, a.d * b.d)

f64_div(a, b) ==
    IF b.n = 0 THEN (IF a.n = 0 THEN NaN ELSE Infinity(IF a.n > 0 THEN 1 ELSE -1))
    ELSE IF b.n > 0 THEN Fraction(a.n * b.d, a.d * b.n)
    ELSE Fraction(-(a.n * b.d), -(a.d * b.n))

\* a % b of f64: a - b * trunc(a / b)
f64_mod(a, b) ==
    IF b.n = 0 THEN NaN
    ELSE f64_sub(a, f64_mul(b, as_f64(TruncatedDiv(a.n * b.d, a.d * b.n))))

f64_eq(a, b) == a.n * b.d = b.n * a.d

f64_lt(a, b) == a.n * b.d < b.n * a.d

\* f64::to_string of a whole number or of halves
f64_to_string(a) ==
    IF a.d = 1 THEN ToString(a.n)
    ELSE (IF a.n < 0 THEN "-" ELSE "") \o ToString((IF a.n < 0 THEN -a.n ELSE a.n) \div 2)
            \o ".5"

\* Object::to_string of what string_operation appends
Object_to_string(object) ==
    CASE object.t = "String" -> object.s
      [] object.t = "Integer" -> ToString(object.v)
      [] object.t = "Float" -> f64_to_string(object.f)
      [] object.t = "Boolean" -> (IF object.b THEN "true" ELSE "false")
      [] object.t = "Null" -> "null"

\* float_add .. float_lte and float_operation (operation.rs:113-217)
float_operation(left, right, operand) ==
    IF operand \notin 0..9 THEN Err("unknown operation")
    ELSE IF right.t \notin {"Float", "Integer"}
    THEN IF operand = 0 /\ right.t = "String"
         THEN Ok(String(f64_to_string(left) \o right.s))
         ELSE Err(IF operand = 0 THEN "can not add float with object"
                  ELSE "can not sub float with object")
    ELSE With(IF right.t = "Float" THEN right.f ELSE as_f64(right.v), LAMBDA value :
         CASE operand = 0 -> Ok(Float(f64_add(left, value)))
           [] operand = 1 -> Ok(Float(f64_sub(left, value)))
           [] operand = 2 -> Ok(Float(f64_mul(left, value)))
           [] operand = 3 -> Ok(Float(f64_div(left, value)))
           [] operand = 4 -> Ok(Float(f64_mod(left, value)))
           [] operand = 5 -> Ok(Boolean(f64_eq(left, value)))
           [] operand = 6 -> Ok(Boolean(f64_lt(value, left)))
           [] operand = 7 -> Ok(Boolean(f64_lt(left, value)))
           [] operand = 8 -> Ok(Boolean(~f64_lt(left, value)))
           [] operand = 9 -> Ok(Boolean(~f64_lt(value, left))))

\* an integer that is equal to no object of another kind, where integer_eq
\* returns an error
integer_operation_unequal(left, right, operand) ==
    IF operand \notin 0..9 THEN Err("unknown operation")
    ELSE IF right.t = "Float" THEN float_operation(as_f64(left), right, operand)
    ELSE IF right.t # "Integer" /\ operand = 5 THEN Ok(Boolean(FALSE))
    ELSE IF right.t # "Integer"
    THEN IF operand = 0 /\ right.t = "String"
         THEN Ok(String(ToString(left) \o right.s))
         ELSE Err(IF operand = 0 THEN "can not add integer with object"
                  ELSE "can not sub integer with object")
    ELSE CASE operand = 0 -> Ok(Integer(left + right.v))
           [] operand = 1 -> Ok(Integer(left - right.v))
           [] operand = 2 -> Ok(Integer(left * right.v))
           [] operand = 3 -> IF right.v = 0 THEN Panic("attempt to divide by zero")
                             ELSE Ok(Integer(TruncatedDiv(left, right.v)))
           [] operand = 4 -> IF right.v = 0 THEN Panic("attempt to calculate the remainder with a divisor of zero")
                             ELSE Ok(Integer(left - right.v * TruncatedDiv(left, right.v)))
           [] operand = 5 -> Ok(Boolean(left = right.v))
           [] operand = 6 -> Ok(Boolean(left > right.v))
           [] operand = 7 -> Ok(Boolean(left < right.v))
           [] operand = 8 -> Ok(Boolean(left >= right.v))
           [] operand = 9 -> Ok(Boolean(left <= right.v))

\* integer_add .. integer_lte and integer_operation (operation.rs:8-111)
integer_operation(left, right, operand) ==
    IF operand \notin 0..9 THEN Err("unknown operation")
    ELSE IF right.t = "Float" THEN float_operation(as_f64(left), right, operand)
    ELSE IF right.t # "Integer"
    THEN IF operand = 0 /\ right.t = "String"
         THEN Ok(String(ToString(left) \o right.s))
         ELSE Err(IF operand = 0 THEN "can not add integer with object"
                  ELSE "can not sub integer with object")
    ELSE CASE operand = 0 -> Ok(Integer(left + right.v))
           [] operand = 1 -> Ok(Integer(left - right.v))
           [] operand = 2 -> Ok(Integer(left * right.v))
           [] operand = 3 -> IF right.v = 0 THEN Panic("attempt to divide by zero")
                             ELSE Ok(Integer(TruncatedDiv(left, right.v)))
           [] operand = 4 -> IF right.v = 0 THEN Panic("attempt to calculate the remainder with a divisor of zero")
                             ELSE Ok(Integer(left - right.v * TruncatedDiv(left, right.v)))
           [] operand = 5 -> Ok(Boolean(left = right.v))
           [] operand = 6 -> Ok(Boolean(left > right.v))
           [] operand = 7 -> Ok(Boolean(left < right.v))
           [] operand = 8 -> Ok(Boolean(left >= right.v))
           [] operand = 9 -> Ok(Boolean(left <= right.v))

string_operation(left, right, operand) ==
    IF operand # 0 THEN Err("unknown operation")
    ELSE IF right.t \in {"String", "Integer", "Float", "Boolean", "Null"}
    THEN Ok(String(left \o Object_to_string(right)))
    ELSE Err("can not add string with object")

META_METHODS == <<"_add", "_sub", "_mul", "_div", "_mod", "_eq", "_gt", "_lt", "_gte", "_lte">>

\* state.call_function_by_index(index, arguments), to be run by the Env
Call(function_index, arguments) ==
    [r |-> "Call", function_index |-> function_index, arguments |-> arguments]

model_instance_operation(models, left, right, operand) ==
    IF operand >= Len(META_METHODS) THEN Err("unknown operation")
    ELSE IF META_METHODS[operand + 1] \notin DOMAIN models[left.model_index + 1].functions
    THEN Err("meta method does not exists")
    ELSE Call(models[left.model_index + 1].functions[META_METHODS[operand + 1]],
              <<left, right>>)

OPERATION_EQUAL == 5

\* the result binary_operation pushes, its error, or the call it makes;
\* models is program.models. operand & 256 > 0 is bit 8 of the operand.
binary_operation(models, left, right, operand) ==
    IF (operand \div 256) % 2 = 1
    THEN CASE operand % 256 = 1 -> Ok(Boolean(to_bool(left) /\ to_bool(right)))
           [] operand % 256 = 2 -> Ok(Boolean(to_bool(left) \/ to_bool(right)))
           [] OTHER -> Err("unknown operation")
    ELSE CASE left.t = "Instance" -> model_instance_operation(models, left, right, operand)
           [] left.t = "Integer" -> integer_operation(left.v, right, operand)
           [] left.t = "Float" -> float_operation(left.f, right, operand)
           [] left.t = "String" -> string_operation(left.s, right, operand)
           [] left.t = "Null" ->
                 IF operand = OPERATION_EQUAL THEN Ok(Boolean(right.t = "Null"))
                 ELSE Err("null can not do this kind of operation")
           [] OTHER -> Err("unknown object")

(***************************************************************************)
(* Env: the value stack and the frames. m = [stack, frames]; a Frame is     *)
(* [function_index, locals, program_counter, stack_base]. for_next and      *)
(* iterate are runtime/iterator.rs; the dispatch of the other instructions  *)
(* and the unwinding to a rescue are runtime/env.rs.                        *)
(***************************************************************************)
Frame(function_index, locals, stack_base) ==
    [function_index |-> function_index, locals |-> locals,
     program_counter |-> 0, stack_base |-> stack_base]

current_frame(m) == With(m.frames, LAMBDA fr : fr[Len(fr)])

push(m, object) == [m EXCEPT !.stack = Append(@, object)]

Top(m) == With(m.stack, LAMBDA st : st[Len(st)])

pop(m) == [m EXCEPT !.stack = SubSeq(@, 1, Len(@) - 1)]

SetLocal(m, index, object) ==
    With(m, LAMBDA v : [v EXCEPT !.frames[Len(v.frames)].locals[index + 1] = object])

SetProgramCounter(m, index) ==
    With(m, LAMBDA v : [v EXCEPT !.frames[Len(v.frames)].program_counter = index])

\* a for_next that goes on while the iterator is at most the bound
for_next_inclusive(prog, m, enumerable_index) ==
    With(m, LAMBDA v :
        LET locals == current_frame(v).locals
            enumerable == locals[enumerable_index + 1]
            iterator == IF locals[enumerable_index + 2].t = "Integer"
                        THEN locals[enumerable_index + 2].v ELSE 0
        IN CASE enumerable.t = "Integer" ->
                   IF iterator <= enumerable.v
                   THEN push(push(v, Integer(iterator)), Boolean(FALSE))
                   ELSE push(v, Boolean(TRUE))
             [] OTHER -> push(v, Boolean(TRUE)))

for_next(prog, m, enumerable_index) ==
    With(m, LAMBDA v :
        LET iterator_index == enumerable_index + 1
            locals == current_frame(v).locals
            enumerable == locals[enumerable_index + 1]
            iterator == IF locals[iterator_index + 1].t = "Integer"
                        THEN locals[iterator_index + 1].v ELSE 0
        IN CASE enumerable.t = "Integer" ->
                   IF iterator < enumerable.v
                   THEN push(push(v, Integer(iterator)), Boolean(FALSE))
                   ELSE push(v, Boolean(TRUE))
             [] enumerable.t = "Array" ->
                   \* iterator as usize: a negative iterator is past every length
                   IF iterator >= 0 /\ iterator < Len(enumerable.elements)
                   THEN push(push(v, enumerable.elements[iterator + 1]), Boolean(FALSE))
                   ELSE push(v, Boolean(TRUE))
             [] enumerable.t = "Instance" ->
                   LET model_ == prog.models[enumerable.model_index + 1]
                   IN IF iterator >= 0 /\ iterator < Len(model_.property_names)
                      THEN push(push(v, String(model_.property_names[iterator + 1])),
                                Boolean(FALSE))
                      ELSE push(v, Boolean(TRUE))
             [] OTHER -> push(v, Boolean(TRUE)))

iterate(m, iterator_index) ==
    With(m, LAMBDA v :
        With(current_frame(v).locals[iterator_index + 1], LAMBDA iterator :
            IF iterator.t = "Integer"
            THEN SetLocal(v, iterator_index, Integer(iterator.v + 1))
            ELSE v))

\* an unwinding that looks for a rescue in the current frame only
unwind_top_only(prog, m) ==
    With(m, LAMBDA v :
        IF v.frames # <<>>
           /\ prog.functions[current_frame(v).function_index + 1].rescue_position # 0
        THEN [m |-> SetProgramCounter(
                        [v EXCEPT !.stack = SubSeq(@, 1, current_frame(v).stack_base)],
                        prog.functions[current_frame(v).function_index + 1].rescue_position),
              rescued |-> TRUE]
        ELSE [m |-> v, rescued |-> FALSE])

\* the search of the frame stack from the top down for a rescue
RECURSIVE unwind(_, _)
unwind(prog, m) ==
    With(m, LAMBDA v :
        IF v.frames = <<>>
        THEN [m |-> v, rescued |-> FALSE]
        ELSE With(current_frame(v), LAMBDA frame :
             With(prog.functions[frame.function_index + 1].rescue_position,
                  LAMBDA rescue_position :
                 IF rescue_position # 0
                 THEN [m |-> SetProgramCounter(
                                 [v EXCEPT !.stack = SubSeq(@, 1, frame.stack_base)],
                                 rescue_position),
                       rescued |-> TRUE]
                 ELSE unwind(prog, [v EXCEPT !.frames = SubSeq(@, 1, Len(@) - 1)]))))

\* Call with Function(index): the arguments and the callable leave the stack
call_function(prog, m, index, arg_count) ==
    With(m, LAMBDA v :
        LET n == Len(v.stack)
            arguments == SubSeq(v.stack, n - arg_count + 1, n)
            rest == SubSeq(v.stack, 1, n - arg_count - 1)
            count == prog.functions[index + 1].local_variable_count
            locals == [i \in 1..(IF count > arg_count THEN count ELSE arg_count) |->
                          IF i <= arg_count THEN arguments[i] ELSE Null]
        IN [stack |-> rest,
            frames |-> Append(v.frames, Frame(index, locals, Len(rest)))])

\* Return: the frame goes, the stack falls to its stack_base, the value stays
return_from_frame(m) ==
    With(m, LAMBDA v :
        [stack |-> Append(SubSeq(v.stack, 1, current_frame(v).stack_base), Top(v)),
         frames |-> SubSeq(v.frames, 1, Len(v.frames) - 1)])

(***************************************************************************)
(* The programs the Env runs. A loop program is one function f(e) whose     *)
(* body is `for v in e <body> end`, run by execute_by_function_index with   *)
(* the enumerable as its argument. A rescue program is a chain of functions *)
(* f1 .. fn, each calling the next with an operand waiting on the stack and *)
(* the last one raising a runtime error; each has no rescue, a rescue that  *)
(* returns a value, or a rescue that raises again.                          *)
(***************************************************************************)
MaxInteger == 2

MaxLength == 2

MaxFrames == 3

RECURSIVE ModelWith(_)
ModelWith(names) ==
    IF names = <<>> THEN Model_new
    ELSE add_property(ModelWith(SubSeq(names, 1, Len(names) - 1)),
                      names[Len(names)]).model

Models == <<ModelWith(<<>>), ModelWith(<<"x">>), ModelWith(<<"x", "y">>)>>

LoopVariable == IdentifierExpression("v")

LoopBodies ==
    {<<>>,
     <<ExpressionOf(LoopVariable)>>,
     <<LocalStatement("y", LoopVariable), ExpressionOf(IdentifierExpression("y"))>>,
     <<ExpressionOf(InfixExpression(LoopVariable, "Assign", IntegerExpression(7)))>>,
     <<ForStatement("w", IntegerExpression(2), <<ExpressionOf(LoopVariable)>>)>>,
     <<IfStatement(LoopVariable, <<ExpressionOf(IntegerExpression(7))>>, NoElse)>>}

Enumerables ==
    {Integer(n) : n \in -1..MaxInteger}
        \cup {ArrayObject(a) : a \in SeqsUpTo({Integer(7), Null}, MaxLength)}
        \cup {InstanceObject(i) : i \in 0..(Len(Models) - 1)}
        \cup {Null, Boolean(TRUE)}

LoopProgram(body) ==
    With(FunctionBegin(CompilerContext_new, EmptyMap, <<"e">>), LAMBDA begin :
    With(ForBegin(begin, "v", IdentifierExpression("e"), 1), LAMBDA r :
    With(compile_function_definition_base(CompilerContext_new, EmptyMap, <<"e">>,
             <<ForStatement("v", IdentifierExpression("e"), body)>>), LAMBDA cs :
        [kind |-> "loop",
         functions |-> <<Function(cs.func_state)>>,
         constants |-> cs.context.constants,
         models |-> Models,
         context_locals |-> <<>>,
         arguments |-> <<>>,
         marks |-> [entry |-> get_next_instruction_index(begin.func_state),
                    body |-> get_next_instruction_index(r.cs.func_state),
                    exit |-> cs.func_state.instructions[
                                 r.block.jump_to_end_if_true_instruction_index + 1].operand,
                    variable |-> r.block.local_variable_index]])))

FunctionNames == <<"f1", "f2", "f3", "f4">>

HandlerKinds == {"none", "value", "raise"}

RaiseExpression == InfixExpression(IntegerExpression(1), "Plus", NullExpression)

ChainStatements(i, n, handler) ==
    <<ExpressionOf(IF i = n THEN RaiseExpression
                   ELSE InfixExpression(IntegerExpression(7), "Plus",
                            CallExpression(IdentifierExpression(FunctionNames[i + 1]), <<>>))),
      ReturnStatement>>
    \o CASE handler = "none" -> <<>>
         [] handler = "value" ->
               <<RescueStatement, ExpressionOf(IntegerExpression(42)), ReturnStatement>>
         [] handler = "raise" ->
               <<RescueStatement, ExpressionOf(RaiseExpression), ReturnStatement>>

\* the module scope: function i is the module's local i - 1
ChainLocals(n) ==
    [name \in {FunctionNames[i] : i \in 1..n} |->
        (CHOOSE i \in 1..n : FunctionNames[i] = name) - 1]

\* the functions 1 .. i of the chain, compiled in order on one CompilerContext
RECURSIVE ChainFunctions(_, _, _)
ChainFunctions(i, n, handlers) ==
    IF i = 0 THEN [context |-> CompilerContext_new, functions |-> <<>>]
    ELSE With(ChainFunctions(i - 1, n, handlers), LAMBDA before :
         With(compile_function_definition_base(before.context, ChainLocals(n), <<>>,
                  ChainStatements(i, n, handlers[i])), LAMBDA cs :
             [context |-> cs.context,
              functions |-> Append(before.functions, Function(cs.func_state))]))

RescueProgram(handlers) ==
    With(ChainFunctions(Len(handlers), Len(handlers), handlers), LAMBDA c :
        [kind |-> "rescue",
         functions |-> c.functions,
         constants |-> c.context.constants,
         models |-> Models,
         context_locals |-> [i \in 1..Len(handlers) |-> FunctionObject(i - 1)],
         arguments |-> <<>>,
         marks |-> [entry |-> None, body |-> None, exit |-> None, variable |-> None]])

RECURSIVE SeqsOf(_, _)
SeqsOf(S, n) ==
    IF n = 0 THEN {<<>>} ELSE {Append(q, x) : q \in SeqsOf(S, n - 1), x \in S}

(***************************************************************************)
(* The definitions of a file (compiler.rs 568-748), compiled one after the  *)
(* other on one CompilerContext. A unit is what the CompilerContext and the *)
(* CompilerEnv hold of it: the constants, the models and functions defined  *)
(* so far with their names, the module scope and the entry point.           *)
(***************************************************************************)
Unit_new ==
    [context |-> CompilerContext_new,
     model_definitions |-> <<>>,
     function_definitions |-> <<>>,
     function_names |-> <<>>,
     local_variable_count |-> 0,
     local_values |-> EmptyMap,
     entry_point |-> 0,
     locals |-> EmptyMap,
     errors |-> <<>>]

\* CompilerEnv::define_local: a name of the module scope
CompilerEnv_define_local(unit, name) ==
    With(unit, LAMBDA u :
        IF name \in DOMAIN u.locals
        THEN [unit |-> u, index |-> None]
        ELSE [unit |-> [u EXCEPT !.locals = MapInsert(@, name, u.local_variable_count),
                                 !.local_variable_count = @ + 1],
              index |-> u.local_variable_count])

\* CompilerContext::add_function
add_function(unit, fs, name) ==
    [unit |-> [unit EXCEPT !.function_definitions = Append(@, Function(fs)),
                           !.function_names = Append(@, name)],
     index |-> Len(unit.function_definitions)]

FunctionDefinition(name, parameters, body) ==
    [name |-> name, parameters |-> parameters, body |-> body]

\* the body of the function definition, compiled on the unit's context
FunctionBody(unit, function_definition) ==
    With(compile_function_definition_base(unit.context, unit.locals,
             function_definition.parameters, function_definition.body), LAMBDA cs :
        [unit |-> [unit EXCEPT !.context = cs.context, !.errors = @ \o cs.errors],
         func_state |-> cs.func_state])

\* lines 665-689
compile_function_definition(unit, function_definition) ==
    With(CompilerEnv_define_local(unit, function_definition.name), LAMBDA d :
    With(FunctionBody(d.unit, function_definition), LAMBDA b :
        IF b.func_state.is_instance
        THEN [unit |-> [b.unit EXCEPT !.errors = Append(@,
                  "Instance functions can only be defined inside an implement block.")],
              constant_index |-> 0]
        ELSE With(add_function(b.unit, b.func_state, function_definition.name), LAMBDA f :
             With(add_constant(f.unit.context, FunctionObject(f.index)), LAMBDA c :
                 [unit |-> [f.unit EXCEPT
                               !.context = c.context,
                               !.local_values = IF d.index # None
                                                THEN MapInsert(@, d.index, c.index)
                                                ELSE @,
                               !.entry_point = IF function_definition.name = "main"
                                               THEN f.index
                                               ELSE @],
                  constant_index |-> c.index]))))

\* the function definitions of a file, in order
RECURSIVE compile_function_definitions(_, _)
compile_function_definitions(unit, definitions) ==
    IF definitions = <<>> THEN unit
    ELSE compile_function_definitions(
             compile_function_definition(unit, Head(definitions)).unit, Tail(definitions))

MaxDefinitions == 2

EntryNames == {"main", "first", "second"}

\* function i of the file returns i
EntryDefinitions(names) ==
    [i \in 1..Len(names) |->
        FunctionDefinition(names[i], <<>>,
                           <<ExpressionOf(IntegerExpression(i)), ReturnStatement>>)]

\* CompilerContext::to_program of the file with the functions named
EntryProgram(names) ==
    With(compile_function_definitions(Unit_new, EntryDefinitions(names)), LAMBDA u :
        [kind |-> "entry",
         functions |-> u.function_definitions,
         constants |-> u.context.constants,
         models |-> u.model_definitions,
         context_locals |-> [i \in 1..u.local_variable_count |->
                                IF (i - 1) \in DOMAIN u.local_values
                                THEN u.context.constants[u.local_values[i - 1] + 1]
                                ELSE Null],
         arguments |-> <<>>,
         marks |-> [entry |-> None, body |-> None, exit |-> None, variable |-> None],
         entry_point |-> u.entry_point,
         function_names |-> u.function_names,
         errors |-> u.errors])

NoRaise == [frames |-> <<>>, stack |-> <<>>, raised |-> FALSE]

\* the operands of `and` and `or`: falsy and truthy ones
LogicOperands ==
    {Null, Boolean(TRUE), Boolean(FALSE), Integer(0), Integer(7), String(""), String("x")}

\* function f(a, s) local r = a <infix> (s = 7) r return end, run as
\* f(a, 0): the right operand of the infix has run when s is 7
LogicProgram(infix) ==
    With(compile_function_definition_base(CompilerContext_new, EmptyMap, <<"a", "s">>,
             <<LocalStatement("r",
                   InfixExpression(IdentifierExpression("a"), infix,
                       InfixExpression(IdentifierExpression("s"), "Assign",
                                       IntegerExpression(7)))),
               ExpressionOf(IdentifierExpression("r")),
               ReturnStatement>>), LAMBDA cs :
        [kind |-> "logic",
         infix |-> infix,
         functions |-> <<Function(cs.func_state)>>,
         constants |-> cs.context.constants,
         models |-> Models,
         context_locals |-> <<>>,
         arguments |-> <<>>,
         marks |-> [entry |-> None, body |-> None, exit |-> None, variable |-> None]])

BranchEndings ==
    {"empty", "expression", "local", "declaration", "for", "if", "only declaration",
     "only for"}

\* the branches that do not set s
Unmarked == {"empty", "none", "only declaration", "only for"}

\* the statements of a branch: s = mark and then the statement the branch ends
\* with, or that statement only, or none
Branch(mark, ending) ==
    LET marking == ExpressionOf(InfixExpression(IdentifierExpression("s"), "Assign",
                                                IntegerExpression(mark)))
    IN CASE ending = "empty" -> <<>>
         [] ending = "expression" -> <<marking>>
         [] ending = "local" -> <<marking, LocalStatement("y", IntegerExpression(7))>>
         [] ending = "declaration" -> <<marking, LocalStatement("y", NoValue)>>
         [] ending = "for" ->
               <<marking, ForStatement("v", IntegerExpression(2),
                                       <<ExpressionOf(IntegerExpression(7))>>)>>
         [] ending = "if" ->
               <<marking, IfStatement(IdentifierExpression("c"),
                                      <<ExpressionOf(IntegerExpression(7))>>, NoElse)>>
         [] ending = "only declaration" -> <<LocalStatement("y", NoValue)>>
         [] ending = "only for" ->
               <<ForStatement("v", IntegerExpression(2),
                              <<ExpressionOf(IntegerExpression(7))>>)>>

\* function f(c, s) if c <then> [else <else>] end return end, run as f(c, 0):
\* the then part sets s to 1 and the else part sets s to 2. The mark exit is
\* the index both branches go on at, where the Pop of the statement stood
\* before the return took it away.
IfProgram(then_ending, else_ending) ==
    With(IfStatement(IdentifierExpression("c"), Branch(1, then_ending),
                     IF else_ending = "none" THEN NoElse
                     ELSE ElsePart(Branch(2, else_ending))), LAMBDA statement :
    With(compile_statements(FunctionBegin(CompilerContext_new, EmptyMap, <<"c", "s">>),
                            <<statement>>, 1), LAMBDA alone :
    With(compile_function_definition_base(CompilerContext_new, EmptyMap, <<"c", "s">>,
             <<statement, ReturnStatement>>), LAMBDA cs :
        [kind |-> "if",
         then_ending |-> then_ending,
         else_ending |-> else_ending,
         functions |-> <<Function(cs.func_state)>>,
         constants |-> cs.context.constants,
         models |-> Models,
         context_locals |-> <<>>,
         arguments |-> <<>>,
         marks |-> [entry |-> 0, body |-> None,
                    exit |-> get_next_instruction_index(alone.func_state) - 1,
                    variable |-> None]])))

Conditions == {Null, Boolean(TRUE), Integer(0), Integer(7)}

\* execute_by_function_index(0, arguments)
Execute(prog, arguments) ==
    /\ program = [prog EXCEPT !.arguments = arguments]
    /\ stack = <<>>
    /\ frames = <<Frame(0, [i \in 1..prog.functions[1].local_variable_count |->
                               IF i <= Len(arguments) THEN arguments[i] ELSE Null], 0)>>
    /\ outcome = StillRunning
    /\ raised = NoRaise
    /\ body_runs = <<>>
    /\ loop_depth = [entry |-> 0, exit |-> None]

EnvIdle ==
    /\ program = [kind |-> "none"]
    /\ stack = <<>>
    /\ frames = <<>>
    /\ outcome = Idle
    /\ raised = NoRaise
    /\ body_runs = <<>>
    /\ loop_depth = [entry |-> 0, exit |-> None]

\* a program compiled and not yet run
Compile(prog) ==
    /\ program = prog
    /\ stack = <<>>
    /\ frames = <<>>
    /\ outcome = Idle
    /\ raised = NoRaise
    /\ body_runs = <<>>
    /\ loop_depth = [entry |-> 0, exit |-> None]

EnvInit ==
    \/ \E body \in LoopBodies, enumerable \in Enumerables :
           Execute(LoopProgram(body), <<enumerable>>)
    \/ \E handlers \in SeqsOf(HandlerKinds, MaxFrames) :
           Execute(RescueProgram(handlers), <<>>)
    \/ \E names \in SeqsUpTo(EntryNames, MaxDefinitions) \ {<<>>} :
           Compile(EntryProgram(names))
    \/ \E infix \in {"And", "Or"}, a \in LogicOperands :
           Execute(LogicProgram(infix), <<a, Integer(0)>>)
    \/ \E then_ending \in BranchEndings, else_ending \in BranchEndings \cup {"none"},
          c \in Conditions :
           Execute(IfProgram(then_ending, else_ending), <<c, Integer(0)>>)

(***************************************************************************)
(* The fetch-decode loop of execute: one step reads the instruction at the  *)
(* current frame's program counter, advances the counter and executes the   *)
(* instruction. A runtime error unwinds to a rescue in the same step.       *)
(***************************************************************************)
Running == outcome = StillRunning

M == [stack |-> stack, frames |-> frames]

Fetch ==
    LET frame == frames[Len(frames)]
    IN program.functions[frame.function_index + 1].instructions[frame.program_counter + 1]

\* m with the program counter past the fetched instruction
Advance(m) ==
    With(m, LAMBDA v : SetProgramCounter(v, current_frame(v).program_counter + 1))

\* the observed loop: its body is entered, it is left
Observe(m) ==
    \E v \in {m} :
        LET observed == program.kind \in {"loop", "if"} /\ Len(v.frames) = 1
            at == IF observed THEN current_frame(v).program_counter ELSE None
        IN /\ body_runs' = IF observed /\ at = program.marks.body
                           THEN Append(body_runs,
                                       current_frame(v).locals[program.marks.variable + 1])
                           ELSE body_runs
           /\ loop_depth' = IF observed /\ at = program.marks.exit
                            THEN [loop_depth EXCEPT !.exit = Len(v.stack)]
                            ELSE loop_depth

Continue(m) ==
    \E v \in {m} :
        /\ stack' = v.stack
        /\ frames' = v.frames
        /\ outcome' = StillRunning
        /\ raised' = NoRaise
        /\ Observe(v)
        /\ UNCHANGED <<program, NotEnv>>

\* a runtime error is raised in state m
Raise(m) ==
    \E v \in {m} : \E u \in {unwind(program, v)} :
        /\ stack' = u.m.stack
        /\ frames' = u.m.frames
        /\ outcome' = IF u.rescued THEN StillRunning ELSE Err("runtime error")
        /\ raised' = [frames |-> v.frames, stack |-> v.stack, raised |-> TRUE]
        /\ Observe(u.m)
        /\ UNCHANGED <<program, NotEnv>>

ExecutePushConstant ==
    /\ Running
    /\ Fetch.opcode = "PushConstant"
    /\ Continue(push(Advance(M), program.constants[Fetch.operand + 1]))

ExecutePop ==
    /\ Running
    /\ Fetch.opcode = "Pop"
    /\ Continue(pop(Advance(M)))

ExecuteLocalGet ==
    /\ Running
    /\ Fetch.opcode = "LocalGet"
    /\ Continue(push(Advance(M), frames[Len(frames)].locals[Fetch.operand + 1]))

\* the value stays on the stack
ExecuteLocalSet ==
    /\ Running
    /\ Fetch.opcode = "LocalSet"
    /\ Continue(SetLocal(Advance(M), Fetch.operand, Top(M)))

\* the value leaves the stack
ExecuteLocalInit ==
    /\ Running
    /\ Fetch.opcode = "LocalInit"
    /\ Continue(pop(SetLocal(Advance(M), Fetch.operand, Top(M))))

ExecuteContextGet ==
    /\ Running
    /\ Fetch.opcode = "ContextGet"
    /\ Continue(push(Advance(M), program.context_locals[Fetch.operand + 1]))

ExecuteJump ==
    /\ Running
    /\ Fetch.opcode = "Jump"
    /\ Continue(SetProgramCounter(M, Fetch.operand))

ExecuteJumpIf ==
    /\ Running
    /\ Fetch.opcode = "JumpIf"
    /\ Continue(IF to_bool(Top(M))
                THEN SetProgramCounter(pop(M), Fetch.operand)
                ELSE pop(Advance(M)))

ExecuteForNext ==
    /\ Running
    /\ Fetch.opcode = "ForNext"
    /\ Continue(for_next(program, Advance(M), Fetch.operand))

ExecuteIterate ==
    /\ Running
    /\ Fetch.opcode = "Iterate"
    /\ Continue(iterate(Advance(M), Fetch.operand))

ExecuteOperation ==
    /\ Running
    /\ Fetch.opcode = "Operation"
    /\ \E right \in {Top(M)}, left \in {Top(pop(M))} :
       \E r \in {binary_operation(program.models, left, right, Fetch.operand)} :
           CASE r.r = "Ok" -> Continue(push(pop(pop(Advance(M))), r.value))
             [] r.r = "Err" -> Raise(pop(pop(Advance(M))))
             [] r.r = "Call" ->
                   Continue(call_function(
                       program,
                       push(push(push(pop(pop(Advance(M))), FunctionObject(r.function_index)),
                                 left), right),
                       r.function_index, 2))
             [] r.r = "Panic" ->
                   /\ outcome' = r
                   /\ raised' = NoRaise
                   /\ UNCHANGED <<program, stack, frames, body_runs, loop_depth, NotEnv>>

ExecuteCall ==
    /\ Running
    /\ Fetch.opcode = "Call"
    /\ \E callable \in {stack[Len(stack) - Fetch.operand]} :
           IF callable.t = "Function"
           THEN Continue(call_function(program, Advance(M), callable.index, Fetch.operand))
           ELSE Raise(Advance(M))

ExecuteReturn ==
    /\ Running
    /\ Fetch.opcode = "Return"
    /\ IF Len(frames) > 1
       THEN Continue(return_from_frame(M))
       ELSE /\ outcome' = Ok(Top(M))
            /\ stack' = SubSeq(stack, 1, frames[1].stack_base)
            /\ frames' = <<>>
            /\ raised' = NoRaise
            /\ UNCHANGED <<program, body_runs, loop_depth, NotEnv>>

\* Clover::run: the program becomes an Env and execute() runs the function
\* entry_point names, called with no arguments
Run ==
    /\ outcome = Idle
    /\ program.kind = "entry"
    /\ stack' = <<>>
    /\ frames' = <<Frame(program.entry_point,
                         [i \in 1..program.functions[program.entry_point + 1]
                                      .local_variable_count |-> Null], 0)>>
    /\ outcome' = StillRunning
    /\ UNCHANGED <<program, raised, body_runs, loop_depth, NotEnv>>

EnvNext ==
    \/ Run
    \/ ExecutePushConstant
    \/ ExecutePop
    \/ ExecuteLocalGet
    \/ ExecuteLocalSet
    \/ ExecuteLocalInit
    \/ ExecuteContextGet
    \/ ExecuteJump
    \/ ExecuteJumpIf
    \/ ExecuteForNext
    \/ ExecuteIterate
    \/ ExecuteOperation
    \/ ExecuteCall
    \/ ExecuteReturn

(***************************************************************************)
(* C7. Rescue recovery: when a runtime error is raised, the frame that      *)
(* takes it is the topmost frame whose function has rescue_position # 0:    *)
(* the frames above it are gone, the frames below it are as they were, the  *)
(* value stack is cut to that frame's stack_base, its program counter is    *)
(* rescue_position and execution goes on; with no such frame execute        *)
(* returns the error.                                                       *)
(***************************************************************************)
HasRescue(frame) == program.functions[frame.function_index + 1].rescue_position # 0

RescueRecovery ==
    raised.raised =>
        LET before == raised.frames
            rescuers == {i \in 1..Len(before) : HasRescue(before[i])}
        IN IF rescuers = {}
           THEN outcome.r = "Err"
           ELSE LET k == CHOOSE i \in rescuers : \A j \in rescuers : j <= i
                IN /\ outcome = StillRunning
                   /\ Len(frames) = k
                   /\ SubSeq(frames, 1, k - 1) = SubSeq(before, 1, k - 1)
                   /\ frames[k] =
                          [before[k] EXCEPT !.program_counter =
                              program.functions[before[k].function_index + 1].rescue_position]
                   /\ Len(stack) = before[k].stack_base
                   /\ stack = SubSeq(raised.stack, 1, before[k].stack_base)

\* an error raised three frames deep, with operands waiting on the stack, is
\* taken by the first function: two frames and the operands are gone
RescueRecoveryWitness ==
    /\ raised.raised
    /\ Len(raised.frames) = 3
    /\ Len(frames) = 1
    /\ Len(raised.stack) > Len(stack)
    /\ outcome = StillRunning
    /\ frames[1].program_counter =
           program.functions[frames[1].function_index + 1].rescue_position

(***************************************************************************)
(* C8. For iteration: a loop `for v in e` whose body has no break, no       *)
(* return and raises no error enters its body once for each of              *)
(* 0 .. n - 1 when e is Integer(n), once for each element in index order    *)
(* when e is an array, once for each property name in declaration order     *)
(* when e is an instance (never for Integer(0), a negative integer, an      *)
(* empty array or a model without properties), each time with v the value,  *)
(* and leaves the value stack as deep as it found it.                       *)
(***************************************************************************)
Expected(enumerable) ==
    CASE enumerable.t = "Integer" ->
             [i \in 1..(IF enumerable.v > 0 THEN enumerable.v ELSE 0) |-> Integer(i - 1)]
      [] enumerable.t = "Array" -> enumerable.elements
      [] enumerable.t = "Instance" ->
             [i \in 1..Len(program.models[enumerable.model_index + 1].property_names) |->
                 String(program.models[enumerable.model_index + 1].property_names[i])]
      [] OTHER -> <<>>

IsPrefix(a, b) == Len(a) <= Len(b) /\ a = SubSeq(b, 1, Len(a))

LoopLeft == loop_depth.exit # None

ForIteration ==
    program.kind = "loop" =>
        /\ IsPrefix(body_runs, Expected(program.arguments[1]))
        /\ LoopLeft =>
              /\ body_runs = Expected(program.arguments[1])
              /\ loop_depth.exit = loop_depth.entry
        /\ outcome.r = "Ok" => LoopLeft
        /\ outcome.r \in {"Running", "Ok"}

\* the loop over an array of two elements is left after two runs of a body
\* that itself holds a loop
ForIterationWitness ==
    /\ program.kind = "loop"
    /\ program.arguments[1] = ArrayObject(<<Integer(7), Null>>)
    /\ LoopLeft
    /\ Len(body_runs) = 2
    /\ \E i \in 1..Len(program.functions[1].instructions) :
           /\ i > program.marks.body
           /\ program.functions[1].instructions[i].opcode = "ForNext"

(***************************************************************************)
(* The program image and its binary format (program.rs:114-426).           *)
(* A byte is a number in 0..255 and a file a sequence of bytes. A u32 is a  *)
(* number; a 64 bit word (an instruction, an i64, the bits of an f64) is    *)
(* kept as its eight little-endian bytes. A string is the length of its     *)
(* byte buffer with the bytes up to the last one that is not zero.          *)
(***************************************************************************)
Min(a, b) == IF a < b THEN a ELSE b

RECURSIVE Flatten(_)
Flatten(seqs) == IF seqs = <<>> THEN <<>> ELSE Head(seqs) \o Flatten(Tail(seqs))

Zeros(n) == [i \in 1..n |-> 0]

RECURSIVE StripZeros(_)
StripZeros(bytes) ==
    IF bytes # <<>> /\ bytes[Len(bytes)] = 0
    THEN StripZeros(SubSeq(bytes, 1, Len(bytes) - 1))
    ELSE bytes

\* vec![0; length] with bytes copied to its front, as a String
String_from(length, bytes) == [length |-> length, bytes |-> StripZeros(bytes)]

Text(bytes) == String_from(Len(bytes), bytes)

as_bytes(string) == string.bytes \o Zeros(string.length - Len(string.bytes))

\* u32 little-endian; every u32 of a file of this model is below 2^31
to_le_bytes(value) ==
    <<value % 256, (value \div 256) % 256, (value \div 65536) % 256,
      (value \div 16777216) % 256>>

from_le_bytes(bytes) ==
    bytes[1] + 256 * bytes[2] + 65536 * bytes[3] + 16777216 * bytes[4]

\* a 64 bit word of a small value
Word(value) == to_le_bytes(value) \o <<0, 0, 0, 0>>

write_u8(writer, value) == Append(writer, value)

write_u32(writer, value) == writer \o to_le_bytes(value)

\* write_u64, write_i64 and write_f64
write_u64(writer, word) == writer \o word

write_all(writer, bytes) == writer \o bytes

\* Program::HEADER, "PieScript", as write_u128 writes it
HEADER == <<80, 105, 101, 83, 99, 114, 105, 112, 116, 0, 0, 0, 0, 0, 0, 0>>

\* crate::version: MAJOR, MINOR, PATCH
version == <<0, 1, 0>>

OBJECT_TYPE_INTEGER == 0

OBJECT_TYPE_FLOAT == 1

OBJECT_TYPE_STRING == 2

OBJECT_TYPE_MODEL == 3

OBJECT_TYPE_FUNCTION == 4

\* the keys of a HashMap in the order one iteration visits them: order lists
\* every key there is
Iteration(map, order) == SelectSeq(order, LAMBDA key : key \in DOMAIN map)

serialize_string(string, writer) ==
    write_all(write_u32(writer, string.length), as_bytes(string))

Model_serialize(m, writer, order) ==
    writer
        \o to_le_bytes(Len(m.property_names))
        \o Flatten([i \in 1..Len(m.property_names) |->
                        serialize_string(m.property_names[i], <<>>)])
        \o to_le_bytes(Cardinality(DOMAIN m.functions))
        \o Flatten([i \in 1..Cardinality(DOMAIN m.functions) |->
                        write_u32(serialize_string(Iteration(m.functions, order)[i], <<>>),
                                  m.functions[Iteration(m.functions, order)[i]])])

Function_serialize(function, writer) ==
    writer
        \o to_le_bytes(function.parameter_count)
        \o to_le_bytes(function.local_variable_count)
        \o to_le_bytes(function.rescue_position)
        \o <<IF function.is_instance THEN 1 ELSE 0>>
        \o to_le_bytes(Len(function.instructions))
        \o Flatten(function.instructions)

\* one constant of the loop of lines 262-290; <<>> stands for its Err
serialize_constant(object) ==
    CASE object.t = "Integer" -> write_u64(<<OBJECT_TYPE_INTEGER>>, object.v)
      [] object.t = "Float" -> write_u64(<<OBJECT_TYPE_FLOAT>>, object.f)
      [] object.t = "String" -> serialize_string(object.s, <<OBJECT_TYPE_STRING>>)
      [] object.t = "Model" -> write_u32(<<OBJECT_TYPE_MODEL>>, object.index)
      [] object.t = "Function" -> write_u32(<<OBJECT_TYPE_FUNCTION>>, object.index)
      [] OTHER -> <<>>

\* the constants from DEFAULT_CONSTANTS.len() on that are written: all of
\* them, or those before the first that is of no written kind
RECURSIVE written_constants(_)
written_constants(constants) ==
    IF constants = <<>> \/ serialize_constant(Head(constants)) = <<>> THEN <<>>
    ELSE <<Head(constants)>> \o written_constants(Tail(constants))

\* GzEncoder (flate2): a gzip member around the bytes written to it. The
\* member is the magic, the bytes as stored data, and of the trailer ISIZE.
GzMagic == <<31, 139>>

GzEncoder(bytes) == GzMagic \o bytes \o to_le_bytes(Len(bytes))

\* the bytes Program::serialize writes after the header, up to its Ok or
\* to the Err of line 288
serialize_body(p, function_order, local_order) ==
    With(written_constants(SubSeq(p.constants, Len(DEFAULT_CONSTANTS) + 1, Len(p.constants))),
         LAMBDA written :
    to_le_bytes(Len(p.models))
        \o Flatten([i \in 1..Len(p.models) |->
                        Model_serialize(p.models[i], <<>>, function_order)])
        \o to_le_bytes(Len(p.functions))
        \o Flatten([i \in 1..Len(p.functions) |-> Function_serialize(p.functions[i], <<>>)])
        \o to_le_bytes(Len(p.constants))
        \o Flatten([i \in 1..Len(written) |-> serialize_constant(written[i])])
        \o (IF Len(written) + Len(DEFAULT_CONSTANTS) < Len(p.constants) THEN <<>>
            ELSE to_le_bytes(Len(p.global_dependencies))
                \o Flatten([i \in 1..Len(p.global_dependencies) |->
                                to_le_bytes(p.global_dependencies[i])])
                \o to_le_bytes(p.local_variable_count)
                \o to_le_bytes(Cardinality(DOMAIN p.local_values))
                \o Flatten([i \in 1..Cardinality(DOMAIN p.local_values) |->
                                to_le_bytes(Iteration(p.local_values, local_order)[i])
                                    \o to_le_bytes(p.local_values[
                                           Iteration(p.local_values, local_order)[i]])])
                \o to_le_bytes(p.entry_point)))

\* Program::serialize: what it returned and the bytes it wrote
serialize(p, compress, function_order, local_order) ==
    [ok |-> \A i \in (Len(DEFAULT_CONSTANTS) + 1)..Len(p.constants) :
                serialize_constant(p.constants[i]) # <<>>,
     bytes |-> HEADER \o version \o <<0>>
                  \o (IF compress
                      THEN GzEncoder(serialize_body(p, function_order, local_order))
                      ELSE serialize_body(p, function_order, local_order))]

(***************************************************************************)
(* Reading. The reader Program::deserialize is handed is the BufReader of   *)
(* DefaultStorage::get_reader: the bytes of the file, the offset of the     *)
(* next byte, the offset where the buffered bytes end and the offset where  *)
(* the readable bytes end.                                                  *)
(***************************************************************************)
\* the capacity of the BufReader
BufferCapacity == 24

BufReader_new(data) == [data |-> data, pos |-> 0, filled |-> 0, end |-> Len(data)]

\* Read::read into a buffer of length bytes. With bytes buffered it hands
\* out no more than those; with none, a read of the capacity or more goes
\* to the file, a smaller one fills the buffer first.
read(reader, length) ==
    LET filled == IF reader.pos # reader.filled THEN reader.filled
                  ELSE IF length >= BufferCapacity
                  THEN Min(reader.pos + length, reader.end)
                  ELSE Min(reader.pos + BufferCapacity, reader.end)
        n == Min(length, filled - reader.pos)
    IN  [reader |-> [reader EXCEPT !.pos = @ + n, !.filled = filled],
         bytes |-> SubSeq(reader.data, reader.pos + 1, reader.pos + n)]

\* io::Result: Ok(value) or Err(value), with the reader as the call left it
Done(reader, value) == [ok |-> TRUE, reader |-> reader, value |-> value]

Failed(reader, error) == [ok |-> FALSE, reader |-> reader, value |-> error]

\* returned? followed by F of what it held
Then(returned, F(_)) == CHOOSE r \in {IF v.ok THEN F(v) ELSE v : v \in {returned}} : TRUE

\* Read::read_exact: reads until the buffer is full
RECURSIVE read_exact(_, _)
read_exact(reader, length) ==
    IF length = 0 THEN Done(reader, <<>>)
    ELSE With(read(reader, length), LAMBDA r :
            IF r.bytes = <<>> THEN Failed(r.reader, "UnexpectedEof")
            ELSE Then(read_exact(r.reader, length - Len(r.bytes)),
                      LAMBDA rest : Done(rest.reader, r.bytes \o rest.value)))

read_u8(reader) ==
    Then(read_exact(reader, 1), LAMBDA r : Done(r.reader, r.value[1]))

read_u32(reader) ==
    Then(read_exact(reader, 4), LAMBDA r : Done(r.reader, from_le_bytes(r.value)))

\* read_u64, read_i64 and read_f64
read_u64(reader) == read_exact(reader, 8)

\* String::from_utf8 accepts ASCII
deserialize_string(reader) ==
    Then(read_u32(reader), LAMBDA string_length :
        With(read(string_length.reader, string_length.value), LAMBDA buffer :
            IF \A i \in 1..Len(buffer.bytes) : buffer.bytes[i] < 128
            THEN Done(buffer.reader, String_from(string_length.value, buffer.bytes))
            ELSE Failed(buffer.reader, "InvalidData")))

RECURSIVE deserialize_properties(_, _, _)
deserialize_properties(reader, property_count, m) ==
    IF property_count = 0 THEN Done(reader, m)
    ELSE Then(deserialize_string(reader), LAMBDA property_name :
            deserialize_properties(property_name.reader, property_count - 1,
                                   add_property(m, property_name.value).model))

RECURSIVE deserialize_model_functions(_, _, _)
deserialize_model_functions(reader, function_count, m) ==
    IF function_count = 0 THEN Done(reader, m)
    ELSE Then(deserialize_string(reader), LAMBDA function_name :
         Then(read_u32(function_name.reader), LAMBDA function_index :
            deserialize_model_functions(
                function_index.reader, function_count - 1,
                [m EXCEPT !.functions =
                     MapInsert(@, function_name.value, function_index.value)])))

Model_deserialize(reader) ==
    Then(read_u32(reader), LAMBDA property_count :
    Then(deserialize_properties(property_count.reader, property_count.value, Model_new),
         LAMBDA properties :
    Then(read_u32(properties.reader), LAMBDA function_count :
        deserialize_model_functions(function_count.reader, function_count.value,
                                    properties.value))))

RECURSIVE deserialize_instructions(_, _, _)
deserialize_instructions(reader, instruction_count, instructions) ==
    IF instruction_count = 0 THEN Done(reader, instructions)
    ELSE Then(read_u64(reader), LAMBDA instruction :
            deserialize_instructions(instruction.reader, instruction_count - 1,
                                     Append(instructions, instruction.value)))

Function_deserialize(reader) ==
    Then(read_u32(reader), LAMBDA parameter_count :
    Then(read_u32(parameter_count.reader), LAMBDA local_variable_count :
    Then(read_u32(local_variable_count.reader), LAMBDA rescue_position :
    Then(read_u8(rescue_position.reader), LAMBDA is_instance :
    Then(read_u32(is_instance.reader), LAMBDA instruction_count :
    Then(deserialize_instructions(instruction_count.reader, instruction_count.value, <<>>),
         LAMBDA instructions :
        Done(instructions.reader,
             [parameter_count |-> parameter_count.value,
              local_variable_count |-> local_variable_count.value,
              rescue_position |-> rescue_position.value,
              is_instance |-> is_instance.value = 1,
              instructions |-> instructions.value])))))))

RECURSIVE deserialize_models(_, _, _)
deserialize_models(reader, model_count, models) ==
    IF model_count = 0 THEN Done(reader, models)
    ELSE Then(Model_deserialize(reader), LAMBDA m :
            deserialize_models(m.reader, model_count - 1, Append(models, m.value)))

RECURSIVE deserialize_functions(_, _, _)
deserialize_functions(reader, function_count, functions) ==
    IF function_count = 0 THEN Done(reader, functions)
    ELSE Then(Function_deserialize(reader), LAMBDA function :
            deserialize_functions(function.reader, function_count - 1,
                                  Append(functions, function.value)))

deserialize_constant(reader) ==
    Then(read_u8(reader), LAMBDA object_type :
        CASE object_type.value = OBJECT_TYPE_INTEGER ->
                Then(read_u64(object_type.reader),
                     LAMBDA value : Done(value.reader, Integer(value.value)))
          [] object_type.value = OBJECT_TYPE_FLOAT ->
                Then(read_u64(object_type.reader),
                     LAMBDA value : Done(value.reader, Float(value.value)))
          [] object_type.value = OBJECT_TYPE_STRING ->
                Then(deserialize_string(object_type.reader),
                     LAMBDA value : Done(value.reader, String(value.value)))
          [] object_type.value = OBJECT_TYPE_MODEL ->
                Then(read_u32(object_type.reader),
                     LAMBDA value : Done(value.reader, ModelObject(value.value)))
          [] object_type.value = OBJECT_TYPE_FUNCTION ->
                Then(read_u32(object_type.reader),
                     LAMBDA value : Done(value.reader, FunctionObject(value.value)))
          [] OTHER -> Failed(object_type.reader, "from_raw_os_error(0)"))

\* the loop over DEFAULT_CONSTANTS.len()..constant_count
RECURSIVE deserialize_constants(_, _, _)
deserialize_constants(reader, constant_count, constants) ==
    IF Len(constants) >= constant_count THEN Done(reader, constants)
    ELSE Then(deserialize_constant(reader), LAMBDA constant :
            deserialize_constants(constant.reader, constant_count,
                                  Append(constants, constant.value)))

RECURSIVE deserialize_global_dependencies(_, _, _)
deserialize_global_dependencies(reader, global_dependency_count, global_dependencies) ==
    IF global_dependency_count = 0 THEN Done(reader, global_dependencies)
    ELSE Then(read_u32(reader), LAMBDA global_dependency :
            deserialize_global_dependencies(
                global_dependency.reader, global_dependency_count - 1,
                Append(global_dependencies, global_dependency.value)))

RECURSIVE deserialize_local_values(_, _, _)
deserialize_local_values(reader, local_value_count, local_values) ==
    IF local_value_count = 0 THEN Done(reader, local_values)
    ELSE Then(read_u32(reader), LAMBDA index :
         Then(read_u32(index.reader), LAMBDA value :
            deserialize_local_values(value.reader, local_value_count - 1,
                                     MapInsert(local_values, index.value, value.value))))

\* GzDecoder (flate2) around the reader: the magic, then the stored data up
\* to the trailer
GzDecoder(reader) ==
    Then(read_exact(reader, Len(GzMagic)), LAMBDA magic :
        IF magic.value # GzMagic \/ magic.reader.end - magic.reader.pos < 4
        THEN Failed(magic.reader, "InvalidInput")
        ELSE Done([magic.reader EXCEPT !.end = @ - 4,
                                       !.filled = Min(@, magic.reader.end - 4)],
                  <<>>))

\* a header that is refused when it is not the one serialize writes
read_header_refusing(reader) ==
    Then(read_exact(reader, Len(HEADER)), LAMBDA header :
    Then(read_exact(header.reader, Len(version)), LAMBDA versions :
    Then(read_u8(versions.reader), LAMBDA header_end :
        IF header.value = HEADER /\ versions.value = version /\ header_end.value = 0
        THEN Done(header_end.reader, <<>>)
        ELSE Failed(header_end.reader, "InvalidData"))))

\* Program::deserialize, lines 318-335: the magic number, the three version
\* numbers and the zero after them are read and compared with the ones of
\* this build; a difference prints a warning to the terminal and nothing else
read_header(reader) ==
    Then(read_exact(reader, Len(HEADER)), LAMBDA header :
    Then(read_exact(header.reader, Len(version)), LAMBDA versions :
    Then(read_u8(versions.reader), LAMBDA header_end :
        Done(header_end.reader, <<>>))))

\* Program::deserialize
deserialize(reader, compressed) ==
    Then(read_header(reader), LAMBDA header_end :
    Then(IF compressed THEN GzDecoder(header_end.reader) ELSE Done(header_end.reader, <<>>),
         LAMBDA body :
    Then(read_u32(body.reader), LAMBDA model_count :
    Then(deserialize_models(model_count.reader, model_count.value, <<>>), LAMBDA models :
    Then(read_u32(models.reader), LAMBDA function_count :
    Then(deserialize_functions(function_count.reader, function_count.value, <<>>),
         LAMBDA functions :
    Then(read_u32(functions.reader), LAMBDA constant_count :
    Then(deserialize_constants(constant_count.reader, constant_count.value,
                               DEFAULT_CONSTANTS),
         LAMBDA constants :
    Then(read_u32(constants.reader), LAMBDA global_dependency_count :
    Then(deserialize_global_dependencies(global_dependency_count.reader,
                                         global_dependency_count.value, <<>>),
         LAMBDA global_dependencies :
    Then(read_u32(global_dependencies.reader), LAMBDA local_variable_count :
    Then(read_u32(local_variable_count.reader), LAMBDA local_value_count :
    Then(deserialize_local_values(local_value_count.reader, local_value_count.value,
                                  EmptyMap),
         LAMBDA local_values :
    Then(read_u32(local_values.reader), LAMBDA entry_point :
        Done(entry_point.reader,
             [models |-> models.value,
              functions |-> functions.value,
              constants |-> constants.value,
              global_dependencies |-> global_dependencies.value,
              local_variable_count |-> local_variable_count.value,
              local_values |-> local_values.value,
              entry_point |-> entry_point.value,
              file_info |-> FALSE,
              debug_info |-> FALSE])))))))))))))))

(***************************************************************************)
(* Programs as the compiler builds them, saved and loaded again             *)
(* (lib.rs:56-69).                                                          *)
(***************************************************************************)
ImageNames == <<Text(<<97>>), Text(<<97, 98>>), Text(<<97, 98, 99>>)>>

ImagePropertyNames ==
    {<<>>, <<ImageNames[1]>>, <<ImageNames[3], ImageNames[2]>>}

ImageModelFunctions ==
    {EmptyMap,
     MapInsert(EmptyMap, ImageNames[1], 0),
     MapInsert(MapInsert(EmptyMap, ImageNames[1], 0), ImageNames[2], 1)}

ImageModels ==
    {[ModelWith(names) EXCEPT !.functions = functions] :
        names \in ImagePropertyNames, functions \in ImageModelFunctions}

ImageFunctions ==
    <<[parameter_count |-> 0, local_variable_count |-> 0, rescue_position |-> 0,
       is_instance |-> FALSE, instructions |-> <<Word(5)>>],
      [parameter_count |-> 1, local_variable_count |-> 2, rescue_position |-> 1,
       is_instance |-> TRUE, instructions |-> <<Word(261), Word(5)>>]>>

\* the constants after the default ones: no integer and no string twice
ImageConstants ==
    {<<>>,
     <<Integer(Word(7))>>,
     <<String(ImageNames[2])>>,
     <<String(ImageNames[1]), Integer(Word(7))>>,
     <<String(ImageNames[3]), Float(Word(3))>>,
     <<FunctionObject(0), String(ImageNames[2])>>,
     <<ModelObject(0), FunctionObject(0)>>,
     <<Float(Word(3)), String(ImageNames[3]), String(ImageNames[1])>>}

ImageLocalValues ==
    {EmptyMap, MapInsert(EmptyMap, 0, 3), MapInsert(MapInsert(EmptyMap, 0, 3), 1, 4)}

\* the indices of a program point into its tables
WellFormed(p) ==
    /\ \A i \in 1..Len(p.models) : \A name \in DOMAIN p.models[i].functions :
           p.models[i].functions[name] < Len(p.functions)
    /\ \A i \in 1..Len(p.constants) :
           /\ p.constants[i].t = "Model" => p.constants[i].index < Len(p.models)
           /\ p.constants[i].t = "Function" => p.constants[i].index < Len(p.functions)
    /\ \A i \in 1..Len(p.global_dependencies) :
           /\ p.global_dependencies[i] < Len(p.constants)
           /\ p.constants[p.global_dependencies[i] + 1].t = "String"
    /\ \A index \in DOMAIN p.local_values :
           /\ index < p.local_variable_count
           /\ p.local_values[index] < Len(p.constants)
    /\ p.entry_point <= Len(p.functions)

Programs ==
    {p \in [models : {<<>>} \cup {<<m>> : m \in ImageModels},
            functions : {SubSeq(ImageFunctions, 1, 1), ImageFunctions},
            constants : {DEFAULT_CONSTANTS \o constants : constants \in ImageConstants},
            global_dependencies : {<<>>, <<3>>},
            local_variable_count : {0, 2},
            local_values : ImageLocalValues,
            entry_point : {0, 1},
            file_info : {TRUE},
            debug_info : {TRUE}] : WellFormed(p)}

\* the orders a HashMap may give its keys
Orders(keys) == {order \in SeqsOf(keys, Cardinality(keys)) : Range(order) = keys}

ImageIdle ==
    /\ image = [models |-> <<>>]
    /\ compression = FALSE
    /\ file = <<>>
    /\ reloaded = Failed(BufReader_new(<<>>), "None")
    /\ stage = "idle"

ImageInit ==
    /\ image \in Programs
    /\ compression \in BOOLEAN
    /\ file = <<>>
    /\ reloaded = Failed(BufReader_new(<<>>), "None")
    /\ stage = "compiled"

\* Clover::save_program: program.serialize(writer, compression)
SaveProgram ==
    /\ stage = "compiled"
    /\ \E function_order \in Orders(Range(ImageNames)), local_order \in Orders({0, 1}) :
       \E written \in {serialize(image, compression, function_order, local_order)} :
           /\ file' = written.bytes
           /\ stage' = IF written.ok THEN "saved" ELSE "failed"
    /\ UNCHANGED <<image, compression, reloaded, NotImage>>

\* Clover::load_program: Program::deserialize(reader, compression)
LoadProgram ==
    /\ stage = "saved"
    /\ reloaded' = deserialize(BufReader_new(file), compression)
    /\ stage' = "loaded"
    /\ UNCHANGED <<image, compression, file, NotImage>>

\* the places in the header of a file that another build writes differently:
\* the magic number, MAJOR, MINOR, PATCH, the zero after them, all of them
HeaderChanges ==
    {{1}, {Len(HEADER) + 1}, {Len(HEADER) + 2}, {Len(HEADER) + 3},
     {Len(HEADER) + Len(version) + 1}, 1..(Len(HEADER) + Len(version) + 1)}

Altered(bytes, positions) ==
    [i \in 1..Len(bytes) |-> IF i \in positions THEN (bytes[i] + 1) % 256 ELSE bytes[i]]

\* the same payload behind the header of this build
WithMatchingHeader(bytes) ==
    HEADER \o version \o <<0>>
        \o SubSeq(bytes, Len(HEADER) + Len(version) + 2, Len(bytes))

\* Clover::load_program on the file of another build: the payload saved,
\* behind a header that differs in the places chosen
LoadOtherVersion ==
    /\ stage = "saved"
    /\ \E positions \in HeaderChanges :
       \E bytes \in {Altered(file, positions)} :
           /\ file' = bytes
           /\ reloaded' = deserialize(BufReader_new(bytes), compression)
    /\ stage' = "loaded_other"
    /\ UNCHANGED <<image, compression, NotImage>>

ImageNext == SaveProgram \/ LoadProgram \/ LoadOtherVersion

\* the fields of a program but file_info and debug_info
Fields(p) ==
    <<[i \in 1..Len(p.models) |->
          <<p.models[i].property_names, p.models[i].functions>>],
      p.functions, p.constants, p.global_dependencies, p.local_variable_count,
      p.local_values, p.entry_point>>

\* C3: a program saved and reloaded with the same compression flag loads, and
\* the reloaded program has the models (property names in order, method name
\* to function index), functions, constants, global dependencies, local
\* variable count, local values and entry point of the program saved.
RoundTrip ==
    stage = "loaded" => reloaded.ok /\ Fields(reloaded.value) = Fields(image)

(***************************************************************************)
(* The lexer (frontend/lexer.rs): LexState and lex_number. A character is   *)
(* a string of length one; an i64 or the integer value of an f64 is kept    *)
(* as its decimal digits, most significant first, without leading zeros.    *)
(***************************************************************************)
DigitCharacters == <<"0", "1", "2", "3", "4", "5", "6", "7", "8", "9">>

\* Option<char>::None, and the '\0' peek answers at the end of the source
NoCharacter == "None"

NulCharacter == "\\0"

is_number(character) == character \in Range(DigitCharacters)

DigitOf(character) == (CHOOSE i \in 1..10 : DigitCharacters[i] = character) - 1

RECURSIVE Canonical(_)
Canonical(digits) ==
    IF Len(digits) > 1 /\ digits[1] = 0 THEN Canonical(Tail(digits)) ELSE digits

\* a < b for canonical digit sequences
RECURSIVE DigitsLess(_, _)
DigitsLess(a, b) ==
    IF Len(a) # Len(b) THEN Len(a) < Len(b)
    ELSE IF a = <<>> THEN FALSE
    ELSE IF a[1] # b[1] THEN a[1] < b[1]
    ELSE DigitsLess(Tail(a), Tail(b))

\* digits divided by two: the quotient, not canonical, and the remainder
RECURSIVE HalveFrom(_, _, _)
HalveFrom(digits, carry, quotient) ==
    IF digits = <<>> THEN [quotient |-> quotient, remainder |-> carry]
    ELSE HalveFrom(Tail(digits), (10 * carry + digits[1]) % 2,
                   Append(quotient, (10 * carry + digits[1]) \div 2))

Halve(digits) ==
    With(HalveFrom(digits, 0, <<>>),
         LAMBDA h : [quotient |-> Canonical(h.quotient), remainder |-> h.remainder])

\* digits times two plus carry
RECURSIVE DoubleFrom(_, _)
DoubleFrom(digits, carry) ==
    IF digits = <<>> THEN (IF carry = 0 THEN <<>> ELSE <<carry>>)
    ELSE DoubleFrom(SubSeq(digits, 1, Len(digits) - 1),
                    (2 * digits[Len(digits)] + carry) \div 10)
            \o <<(2 * digits[Len(digits)] + carry) % 10>>

Double(digits) == DoubleFrom(digits, 0)

RECURSIVE Increment(_)
Increment(digits) ==
    IF digits = <<>> THEN <<1>>
    ELSE IF digits[Len(digits)] < 9
    THEN [digits EXCEPT ![Len(digits)] = @ + 1]
    ELSE Increment(SubSeq(digits, 1, Len(digits) - 1)) \o <<0>>

\* 2^53: an f64 has 53 bits of mantissa
MantissaLimit == <<9, 0, 0, 7, 1, 9, 9, 2, 5, 4, 7, 4, 0, 9, 9, 2>>

\* i64::MAX, 2^63 - 1
I64_MAX == <<9, 2, 2, 3, 3, 7, 2, 0, 3, 6, 8, 5, 4, 7, 7, 5, 8, 0, 7>>

\* the mantissa of the f64 nearest to a whole number (ties to even), the
\* number of binary places dropped, and what was dropped: the last place
\* (round) and whether any place before it was set (sticky)
RECURSIVE Mantissa(_, _, _, _)
Mantissa(digits, places, round, sticky) ==
    IF DigitsLess(digits, MantissaLimit)
    THEN [digits |-> IF round = 1 /\ (sticky \/ digits[Len(digits)] % 2 = 1)
                     THEN Increment(digits) ELSE digits,
          places |-> places]
    ELSE With(Halve(digits), LAMBDA h :
            Mantissa(h.quotient, places + 1, h.remainder, sticky \/ round = 1))

RECURSIVE Scale(_, _)
Scale(digits, places) ==
    IF places = 0 THEN digits ELSE Scale(Double(digits), places - 1)

\* str::parse::<f64> of a run of digits: the whole number the f64 holds
parse_f64(digits) ==
    With(Mantissa(Canonical(digits), 0, 0, FALSE), LAMBDA m : Scale(m.digits, m.places))

\* `num as i64` of an f64 that is a whole number, not negative: the cast saturates
as_i64(whole) == IF DigitsLess(I64_MAX, whole) THEN I64_MAX ELSE whole

\* TokenValue::Integer, Float and Invalid. A float is kept as the decimal its
\* literal spells.
TokenInteger(value) == [kind |-> "Integer", value |-> value]

TokenFloat(whole, fraction) == [kind |-> "Float", whole |-> whole, fraction |-> fraction]

TokenInvalid(message) == [kind |-> "Invalid", message |-> message]

Token_new(value, position) == [value |-> value, position |-> position]

\* LexState as lex sets it up (lexer.rs:302-308), before its next_character
LexState_new(source) ==
    [source |-> source, position |-> [line |-> 1, column |-> 0], current |-> NulCharacter]

next_character(state) ==
    IF state.source = <<>> THEN [state EXCEPT !.current = NoCharacter]
    ELSE [source |-> Tail(state.source),
          current |-> Head(state.source),
          position |-> IF Head(state.source) = "\n"
                       THEN [line |-> state.position.line + 1, column |-> 0]
                       ELSE [state.position EXCEPT !.column = @ + 1]]

peek(state) == IF state.source = <<>> THEN NulCharacter ELSE Head(state.source)

\* the loop of lex_number (lexer.rs:97-109)
RECURSIVE lex_number_loop(_, _, _)
lex_number_loop(state, number_string, is_float) ==
    IF state.current = NoCharacter
    THEN [state |-> state, number_string |-> number_string, is_float |-> is_float]
    ELSE IF is_number(state.current)
    THEN lex_number_loop(next_character(state), Append(number_string, state.current),
                         is_float)
    ELSE IF state.current = "." /\ ~(is_float \/ ~is_number(peek(state)))
    THEN lex_number_loop(next_character(state), Append(number_string, state.current), TRUE)
    ELSE [state |-> state, number_string |-> number_string, is_float |-> is_float]

DigitsOf(characters) == [i \in 1..Len(characters) |-> DigitOf(characters[i])]

PointAt(number_string) == CHOOSE i \in 1..Len(number_string) : number_string[i] = "."

\* number_string.parse::<f64>() answers Ok for digits and for digits, a
\* point and digits
parses_as_f64(number_string) ==
    /\ number_string # <<>>
    /\ is_number(number_string[1])
    /\ is_number(number_string[Len(number_string)])
    /\ Cardinality({i \in 1..Len(number_string) : number_string[i] = "."}) <= 1
    /\ \A i \in 1..Len(number_string) : is_number(number_string[i]) \/ number_string[i] = "."

\* the match of lex_number (lexer.rs:111-115)
number_value(number_string, is_float) ==
    IF ~parses_as_f64(number_string) THEN TokenInvalid(number_string)
    ELSE IF is_float
    THEN TokenFloat(Canonical(DigitsOf(SubSeq(number_string, 1, PointAt(number_string) - 1))),
                    StripZeros(DigitsOf(SubSeq(number_string, PointAt(number_string) + 1,
                                               Len(number_string)))))
    ELSE TokenInteger(as_i64(parse_f64(DigitsOf(number_string))))

lex_number(state) ==
    With(lex_number_loop(state, <<>>, FALSE), LAMBDA loop :
        [state |-> loop.state,
         number_string |-> loop.number_string,
         is_float |-> loop.is_float,
         token |-> Token_new(number_value(loop.number_string, loop.is_float),
                             state.position)])

(***************************************************************************)
(* lex (lexer.rs:301-320) on sources of numbers.                            *)
(***************************************************************************)
LexChunks ==
    {<<"7">>,
     <<"4", "2">>,
     <<"0", "0", "7">>,
     <<"9", "0", "0", "7", "1", "9", "9", "2", "5", "4", "7", "4", "0", "9", "9", "3">>,
     <<"9", "2", "2", "3", "3", "7", "2", "0", "3", "6", "8", "5", "4", "7", "7", "5", "8", "0", "7">>,
     <<"9", "2", "2", "3", "3", "7", "2", "0", "3", "6", "8", "5", "4", "7", "7", "5", "8", "0", "8">>,
     <<"1", "8", "4", "4", "6", "7", "4", "4", "0", "7", "3", "7", "0", "9", "5", "5", "1", "6", "1", "6">>,
     <<"1", ".", "5">>,
     <<"1", ".">>,
     <<"1", ".", "2", ".", "3">>,
     <<"9", "2", "2", "3", "3", "7", "2", "0", "3", "6", "8", "5", "4", "7", "7", "5", "8", "0", "8", ".", "5">>}

LexSources == LexChunks \cup {a \o <<" ">> \o b : a, b \in LexChunks}

NoNumber == [number_string |-> <<>>, is_float |-> FALSE, lexed |-> FALSE]

LexIdle ==
    /\ lex_state = LexState_new(<<>>)
    /\ token = Token_new(TokenInvalid(<<>>), [line |-> 0, column |-> 0])
    /\ number = NoNumber

LexInit ==
    /\ \E source \in LexSources : lex_state = next_character(LexState_new(source))
    /\ token = Token_new(TokenInvalid(<<>>), [line |-> 0, column |-> 0])
    /\ number = NoNumber

\* LexState::next on a digit
LexNumber ==
    /\ is_number(lex_state.current)
    /\ \E lexed \in {lex_number(lex_state)} :
           /\ lex_state' = lexed.state
           /\ token' = lexed.token
           /\ number' = [number_string |-> lexed.number_string,
                         is_float |-> lexed.is_float, lexed |-> TRUE]
    /\ UNCHANGED NotLex

\* LexState::next on a space or a point, as far as the character it consumes
LexCharacter ==
    /\ lex_state.current # NoCharacter
    /\ ~is_number(lex_state.current)
    /\ lex_state' = next_character(lex_state)
    /\ number' = NoNumber
    /\ UNCHANGED <<token, NotLex>>

LexNext == LexNumber \/ LexCharacter

\* the digits spell a number of the range of i64
FitsI64(digits) == ~DigitsLess(I64_MAX, Canonical(digits))

\* C11: a run of digits without a decimal point whose value does not fit in
\* a signed 64 bit integer is lexed to an Invalid token, never to an Integer
\* token.
IntegerOverflowInvalid ==
    (number.lexed /\ ~number.is_float /\ ~FitsI64(DigitsOf(number.number_string)))
        => token.value.kind = "Invalid"

(***************************************************************************)
(* binary_operation on its own: one call with operands of every kind.       *)
(***************************************************************************)
\* model 0 defines the meta method _eq, model 1 none
OperationModels ==
    <<[Model_new EXCEPT !.functions = MapInsert(EmptyMap, "_eq", 0)], Model_new>>

OperationObjects ==
    {Null, Boolean(TRUE), Boolean(FALSE), Integer(0), Integer(7), Integer(-3),
     Float(Fraction(0, 1)), Float(Fraction(3, 2)), String(""), String("x"),
     ArrayObject(<<>>), InstanceObject(0), InstanceObject(1), FunctionObject(0),
     ModelObject(0)}

\* add .. lte, an operation that does not exist, and, or, and bit 8 alone
OperationOperands == 0..10 \cup {256, 257, 258}

NoOperation ==
    [called |-> FALSE, left |-> Null, right |-> Null, operand |-> 0,
     returned |-> Err("")]

OperationIdle == operation = NoOperation

OperationInit ==
    \E left \in OperationObjects, right \in OperationObjects,
       operand \in OperationOperands :
        operation = [NoOperation EXCEPT !.left = left, !.right = right,
                                        !.operand = operand]

\* Operation: binary_operation(state, left, right, operand)
BinaryOperation ==
    /\ ~operation.called
    /\ operation' = [operation EXCEPT
                         !.called = TRUE,
                         !.returned = binary_operation(OperationModels, operation.left,
                                                       operation.right, operation.operand)]
    /\ UNCHANGED NotOperation

OperationNext == BinaryOperation

\* C12: a division or a remainder of an Integer by Integer(0) returns a
\* RuntimeError: it pushes nothing and does not abort the process.
DivisionByZeroIsError ==
    (/\ operation.called
     /\ operation.left.t = "Integer"
     /\ operation.operand \in {3, 4}
     /\ operation.right = Integer(0))
        => operation.returned.r = "Err"

(***************************************************************************)
(* The finished function: compile_function_definition_base has returned    *)
(* (compiler.rs 654-659) and the step machine has taken EndFunction.        *)
(***************************************************************************)
Compiled == last.kind = "end" /\ env.errors = <<>>

IsJump(instruction) == instruction.opcode \in {"Jump", "JumpIf"}

\* C13: in every function compiled without an error, the operand of every
\* Jump and JumpIf is an index of the instruction list: 0 <= target < len.
JumpTargetsInRange ==
    Compiled =>
        \A i \in 1..Len(func_state.instructions) :
            IsJump(func_state.instructions[i]) =>
                /\ func_state.instructions[i].operand >= 0
                /\ func_state.instructions[i].operand < Len(func_state.instructions)

\* C14: a compiled function has rescue_position 0 exactly when its statement
\* list holds no rescue statement; with one, wherever it stands,
\* 0 < rescue_position < instructions.len().
RescuePositionInRange ==
    Compiled =>
        IF has_rescue
        THEN /\ 0 < func_state.rescue_position
             /\ func_state.rescue_position < Len(func_state.instructions)
        ELSE func_state.rescue_position = 0

\* the instructions control can pass to from instruction i (0-based): the
\* target of a Jump, the target and the next of a JumpIf, nothing after a
\* Return, the next instruction otherwise
Successors(instructions, i) ==
    With(instructions[i + 1], LAMBDA instruction :
        CASE instruction.opcode = "Return" -> {}
          [] instruction.opcode = "Jump" -> {instruction.operand}
          [] instruction.opcode = "JumpIf" -> {instruction.operand, i + 1}
          [] OTHER -> {i + 1})

\* the indices control reaches from the set S of indices, the index
\* instructions.len() past the end included
RECURSIVE ReachableFrom(_, _)
ReachableFrom(instructions, S) ==
    With(S \cup UNION {Successors(instructions, i) : i \in {j \in S : j < Len(instructions)}},
         LAMBDA T : IF T = S THEN S ELSE ReachableFrom(instructions, T))

\* C15: the instruction list of a compiled function is not empty, its last
\* instruction is a Return, and no path from instruction 0 (by fall-through,
\* Jump and both outcomes of JumpIf) runs past the end of the list: each one
\* reaches a Return first.
EndsInReturn ==
    Compiled =>
        /\ Len(func_state.instructions) > 0
        /\ LastOpcode(func_state) = "Return"
        /\ Len(func_state.instructions) \notin
               ReachableFrom(func_state.instructions, {0})

\* C16: a file whose magic number, MAJOR, MINOR, PATCH or trailing zero
\* differs from the ones of this build loads as the same payload behind the
\* matching header does: deserialize returns what it returns for that file,
\* the same Program or the same error, and none for the difference.
HeaderMismatchOnlyWarns ==
    stage = "loaded_other" =>
        /\ WithMatchingHeader(file) # file
        /\ With(deserialize(BufReader_new(WithMatchingHeader(file)), compression),
                LAMBDA matching :
                    /\ reloaded.ok = matching.ok
                    /\ reloaded.value = matching.value)

\* a file with another MAJOR has been loaded and gave a Program with a model
HeaderMismatchOnlyWarnsWitness ==
    /\ stage = "loaded_other"
    /\ file[Len(HEADER) + 1] # version[1]
    /\ reloaded.ok
    /\ reloaded.value.models # <<>>
    /\ Fields(reloaded.value) = Fields(image)

HasMain == \E i \in 1..Len(program.function_names) : program.function_names[i] = "main"

\* C17: the entry point of a program is the index of its function named
\* main; a program without one has entry point 0 and running it is a no-op:
\* no frame is pushed, no body of a function of the program is run.
EntryPointIsMain ==
    program.kind = "entry" =>
        IF HasMain
        THEN program.function_names[program.entry_point + 1] = "main"
        ELSE /\ program.entry_point = 0
             /\ frames = <<>>
             /\ outcome \in {Idle, Ok(Null)}

(***************************************************************************)
(* The definitions of a file that build the models: model, local,          *)
(* implement and apply (compiler.rs 579-632, 692-748).                      *)
(***************************************************************************)
\* CompilerContext::get_local_value: None for a local without a value
get_local_value(u, local_index) ==
    IF local_index \notin DOMAIN u.local_values THEN NoValue
    ELSE With(u.local_values[local_index], LAMBDA constant_index :
             IF constant_index < Len(u.context.constants)
             THEN ConstantAt(u.context, constant_index)
             ELSE NoValue)

\* CompilerContext::add_model
add_model(u, m) ==
    [unit |-> [u EXCEPT !.model_definitions = Append(@, m)],
     index |-> Len(u.model_definitions)]

\* the properties of a model definition, lines 613-619
RECURSIVE add_properties(_, _, _)
add_properties(m, errors, properties) ==
    IF properties = <<>> THEN [model |-> m, errors |-> errors]
    ELSE With(add_property(m, Head(properties)), LAMBDA r :
             add_properties(r.model,
                            IF r.returned THEN errors
                            ELSE Append(errors, "property already exists"),
                            Tail(properties)))

compile_model_definition(u, name, properties) ==
    With(add_properties(Model_new, u.errors, properties), LAMBDA p :
    With(add_model([u EXCEPT !.errors = p.errors], p.model), LAMBDA m :
    With(add_constant(m.unit.context, ModelObject(m.index)), LAMBDA c :
    With(CompilerEnv_define_local([m.unit EXCEPT !.context = c.context], name), LAMBDA d :
        IF d.index # None
        THEN [d.unit EXCEPT !.local_values = MapInsert(@, d.index, c.index)]
        ELSE d.unit))))

\* `local name = integer`, lines 579-608
compile_local_definition(u, name, integer) ==
    With(CompilerEnv_define_local(u, name), LAMBDA d :
        IF d.index = None THEN d.unit
        ELSE With(add_constant(d.unit.context, Integer(integer)), LAMBDA c :
                 [d.unit EXCEPT !.context = c.context,
                                !.local_values = MapInsert(@, d.index, c.index)]))

find_model_index_by_local_name(u, name) ==
    IF name \in DOMAIN u.locals
    THEN With(get_local_value(u, u.locals[name]), LAMBDA object :
             IF object # NoValue /\ object.t = "Model"
             THEN [unit |-> u, index |-> object.index]
             ELSE [unit |-> [u EXCEPT !.errors = Append(@, "is not a model")],
                   index |-> None])
    ELSE [unit |-> [u EXCEPT !.errors = Append(@, "can not find model")],
          index |-> None]

\* m.functions with every entry of functions inserted
InsertAll(m, functions) ==
    [m EXCEPT !.functions =
        [name \in (DOMAIN @) \cup (DOMAIN functions) |->
            IF name \in DOMAIN functions THEN functions[name] ELSE @[name]]]

\* lines 713-718: the functions of an implement block, compiled in order
RECURSIVE compile_implement_functions(_, _, _)
compile_implement_functions(u, functions, function_definitions) ==
    IF function_definitions = <<>> THEN [unit |-> u, functions |-> functions]
    ELSE With(FunctionBody(u, Head(function_definitions)), LAMBDA b :
         With(add_function(b.unit, b.func_state, Head(function_definitions).name),
              LAMBDA f :
             compile_implement_functions(f.unit,
                 MapInsert(functions, Head(function_definitions).name, f.index),
                 Tail(function_definitions))))

compile_implement_definition(u, model_name, function_definitions) ==
    With(compile_implement_functions(u, EmptyMap, function_definitions), LAMBDA c :
    With(find_model_index_by_local_name(c.unit, model_name), LAMBDA found :
        IF found.index # None
        THEN [found.unit EXCEPT !.model_definitions[found.index + 1] =
                                    InsertAll(@, c.functions)]
        ELSE found.unit))

\* an apply that keeps the methods the target has
compile_apply_definition_keeping(u, source_model, target_model) ==
    With(find_model_index_by_local_name(u, source_model), LAMBDA source :
    With(IF source.index # None
         THEN source.unit.model_definitions[source.index + 1].functions
         ELSE EmptyMap, LAMBDA functions :
    With(find_model_index_by_local_name(source.unit, target_model), LAMBDA target :
        IF target.index # None
        THEN [target.unit EXCEPT !.model_definitions[target.index + 1].functions =
                 [name \in (DOMAIN @) \cup (DOMAIN functions) |->
                     IF name \in DOMAIN @ THEN @[name] ELSE functions[name]]]
        ELSE target.unit)))

compile_apply_definition(u, source_model, target_model) ==
    With(find_model_index_by_local_name(u, source_model), LAMBDA source :
    With(IF source.index # None
         THEN source.unit.model_definitions[source.index + 1].functions
         ELSE EmptyMap, LAMBDA functions :
    With(find_model_index_by_local_name(source.unit, target_model), LAMBDA target :
        IF target.index # None
        THEN [target.unit EXCEPT !.model_definitions[target.index + 1] =
                                     InsertAll(@, functions)]
        ELSE target.unit)))

(***************************************************************************)
(* A file that starts with `model A x`, `model B y x` and `local c = 7`,    *)
(* followed by implement blocks and apply directives. d is not defined.     *)
(***************************************************************************)
MaxUnitDefinitions == 3

UnitModels == [A |-> 0, B |-> 1]

UnitNames == {"A", "B", "c", "d"}

MethodLists == {<<"get">>, <<"get", "set">>}

Methods(names) ==
    [i \in 1..Len(names) |-> FunctionDefinition(names[i], <<"this">>, <<ReturnStatement>>)]

NoDefinition == [kind |-> "none", count |-> 0]

UnitIdle ==
    /\ compiling = Unit_new
    /\ definition = NoDefinition

UnitInit ==
    /\ compiling = compile_local_definition(
                  compile_model_definition(
                      compile_model_definition(Unit_new, "A", <<"x">>),
                      "B", <<"y", "x">>),
                  "c", 7)
    /\ definition = NoDefinition

Implement ==
    /\ definition.count < MaxUnitDefinitions
    /\ \E model_name \in DOMAIN UnitModels, names \in MethodLists :
           /\ compiling' = compile_implement_definition(compiling, model_name, Methods(names))
           /\ definition' = [kind |-> "implement", count |-> definition.count + 1]
    /\ UNCHANGED NotUnit

Apply ==
    /\ definition.count < MaxUnitDefinitions
    /\ \E source_model, target_model \in UnitNames :
           /\ compiling' = compile_apply_definition(compiling, source_model, target_model)
           /\ definition' = [kind |-> "apply", count |-> definition.count + 1,
                             source_model |-> source_model,
                             target_model |-> target_model,
                             before |-> compiling]
    /\ UNCHANGED NotUnit

UnitNext == Implement \/ Apply

\* the tables of the model named name
ModelNamed(u, name) == u.model_definitions[UnitModels[name] + 1]

PropertyTables(u) ==
    [i \in 1..Len(u.model_definitions) |->
        <<u.model_definitions[i].property_names, u.model_definitions[i].property_indices>>]

\* the models an apply does not name as its target are as they were
OtherModelsUnchanged(target_model) ==
    \A name \in DOMAIN UnitModels :
        name # target_model => ModelNamed(compiling, name) = ModelNamed(definition.before, name)

\* C18: after `apply Src to Dst` with two models, every method of Src is a
\* method of Dst with the function index it has in Src, every other method of
\* Dst is as it was, Src's methods and all property tables are as they were;
\* when Src is not a model an error is reported and no method table changes.
ApplyCopiesMethods ==
    definition.kind = "apply" =>
        /\ PropertyTables(compiling) = PropertyTables(definition.before)
        /\ compiling.function_definitions = definition.before.function_definitions
        /\ IF definition.source_model \in DOMAIN UnitModels
           THEN IF definition.target_model \in DOMAIN UnitModels
                THEN LET Src == ModelNamed(definition.before, definition.source_model).functions
                         Dst == ModelNamed(definition.before, definition.target_model).functions
                         Now == ModelNamed(compiling, definition.target_model).functions
                     IN /\ DOMAIN Now = (DOMAIN Src) \cup (DOMAIN Dst)
                        /\ \A m \in DOMAIN Src : Now[m] = Src[m]
                        /\ \A m \in (DOMAIN Dst) \ (DOMAIN Src) : Now[m] = Dst[m]
                        /\ OtherModelsUnchanged(definition.target_model)
                        /\ compiling.errors = definition.before.errors
                ELSE /\ compiling.model_definitions = definition.before.model_definitions
                     /\ Len(compiling.errors) = Len(definition.before.errors) + 1
           ELSE /\ compiling.model_definitions = definition.before.model_definitions
                /\ Len(compiling.errors) > Len(definition.before.errors)

\* B had get and set of its own, A another get: the apply of A to B has
\* replaced B's get and kept B's set
ApplyCopiesMethodsWitness ==
    /\ definition.kind = "apply"
    /\ definition.source_model = "A"
    /\ definition.target_model = "B"
    /\ DOMAIN ModelNamed(definition.before, "A").functions = {"get"}
    /\ DOMAIN ModelNamed(definition.before, "B").functions = {"get", "set"}
    /\ ModelNamed(definition.before, "B").functions["get"]
           # ModelNamed(definition.before, "A").functions["get"]
    /\ ModelNamed(compiling, "B").functions["get"] = ModelNamed(definition.before, "A").functions["get"]
    /\ ModelNamed(compiling, "B").functions["set"] = ModelNamed(definition.before, "B").functions["set"]

\* an apply whose source is the local c, an integer, has reported an error
ApplyOfNoModelWitness ==
    /\ definition.kind = "apply"
    /\ definition.source_model = "c"
    /\ definition.target_model = "B"
    /\ ModelNamed(definition.before, "B").functions # EmptyMap
    /\ compiling.errors # definition.before.errors

Numeric(object) == object.t \in {"Integer", "Float"}

EqualCalled == operation.called /\ operation.operand = OPERATION_EQUAL

\* the model of the left operand defines the meta-method of ==
HasEqMethod(object) ==
    /\ object.t = "Instance"
    /\ "_eq" \in DOMAIN OperationModels[object.model_index + 1].functions

\* C20 as stated: == between two operands that are not both numeric and not
\* both Null returns a runtime error.
UnrelatedEqualIsError ==
    (/\ EqualCalled
     /\ ~(Numeric(operation.left) /\ Numeric(operation.right))
     /\ ~(operation.left = Null /\ operation.right = Null)) =>
        operation.returned.r = "Err"

\* C20, amended: == between two operands that are not both numeric returns a
\* runtime error unless the left operand is Null or an instance whose model
\* defines _eq. With Null on the left it returns the Boolean that tells
\* whether the right operand is Null, never an error; with such an instance
\* it calls the model's _eq with both operands.
UnrelatedEqual ==
    (EqualCalled /\ ~(Numeric(operation.left) /\ Numeric(operation.right))) =>
        IF operation.left = Null
        THEN operation.returned = Ok(Boolean(operation.right = Null))
        ELSE IF HasEqMethod(operation.left)
        THEN operation.returned.r = "Call"
        ELSE operation.returned.r = "Err"

\* an Integer compared with a String: the error of integer_eq
UnrelatedEqualWitness ==
    /\ EqualCalled
    /\ operation.left = Integer(7)
    /\ operation.right = String("x")
    /\ operation.returned = Err("can not sub integer with object")

\* the right operand of the logic program has been executed: s was assigned
RightOperandRan ==
    \E i \in 1..Len(frames) : frames[i].locals[2] = Integer(7)

\* C21: `and` and `or` are short-circuit. With a falsy left operand the
\* right operand of `and` is not executed, with a truthy one the right
\* operand of `or` is not executed, and the value is the Boolean conjunction
\* or disjunction of the truthiness of the operands.
ShortCircuit ==
    program.kind = "logic" =>
        /\ (program.infix = "And" /\ ~to_bool(program.arguments[1])) => ~RightOperandRan
        /\ (program.infix = "Or" /\ to_bool(program.arguments[1])) => ~RightOperandRan
        /\ outcome.r = "Ok" =>
              outcome.value = Boolean(IF program.infix = "And"
                                      THEN to_bool(program.arguments[1]) /\ to_bool(Integer(7))
                                      ELSE to_bool(program.arguments[1]) \/ to_bool(Integer(7)))

(***************************************************************************)
(* The scopes of one function and the identifiers compiled in them: any     *)
(* sequence of enter_scope, exit_scope, define_local and                    *)
(* define_anonymous_local (function_state.rs:125-163) on the FunctionState  *)
(* of a function, and identifiers read and assigned in the scopes they      *)
(* leave (compiler.rs:296-390). x is also a name of the module scope, g is  *)
(* a name of the module scope only, p is no name of either.                 *)
(***************************************************************************)
MaxScopeCalls == 4

ScopeNames == {"x", "y"}

ScopeModuleLocals == MapInsert(MapInsert(EmptyMap, "x", 0), "g", 1)

ScopeIdle ==
    /\ scoped = [func_state |-> FunctionState_new, context |-> CompilerContext_new,
                 locals |-> EmptyMap, errors |-> <<>>]
    /\ allocated = <<>>
    /\ call = [op |-> "none", calls |-> 0]

ScopeInit ==
    /\ scoped = [func_state |-> FunctionState_new, context |-> CompilerContext_new,
                 locals |-> ScopeModuleLocals, errors |-> <<>>]
    /\ allocated = <<>>
    /\ call = [op |-> "none", calls |-> 0]

\* a call on the FunctionState, before the first expression of the function
\* is compiled: what it was called on and what it returned
ScopeCall(op, name, d) ==
    \E r \in {d} :
        /\ call.calls < MaxScopeCalls
        /\ scoped.func_state.instructions = <<>>
        /\ scoped' = [scoped EXCEPT !.func_state = r.func_state]
        /\ allocated' = IF r.index # None THEN Append(allocated, r.index) ELSE allocated
        /\ call' = [op |-> op, name |-> name, index |-> r.index, before |-> scoped,
                    calls |-> call.calls + 1]
        /\ UNCHANGED NotScope

NoIndex(fs) == [func_state |-> fs, index |-> None]

EnterScope == ScopeCall("enter_scope", "", NoIndex(enter_scope(scoped.func_state)))

ExitScope == ScopeCall("exit_scope", "", NoIndex(exit_scope(scoped.func_state)))

DefineLocal ==
    \E name \in ScopeNames :
        ScopeCall("define_local", name, define_local(scoped.func_state, name))

DefineAnonymousLocal ==
    ScopeCall("define_anonymous_local", "", define_anonymous_local(scoped.func_state))

ScopeIdentifiers == {"x", "y", "g", "p"}

\* one expression compiled in the scopes the calls have left, as the first
\* expression of the function and the last call
Resolve(op, left, infix, cs) ==
    \E r \in {cs} :
        /\ call.calls < MaxScopeCalls
        /\ scoped.func_state.instructions = <<>>
        /\ scoped.errors = <<>>
        /\ scoped' = r
        /\ call' = [op |-> op, left |-> left, infix |-> infix, before |-> scoped,
                    calls |-> call.calls + 1]
        /\ UNCHANGED <<allocated, NotScope>>

\* `name`
ReadIdentifier ==
    \E name \in ScopeIdentifiers :
        Resolve("read", IdentifierExpression(name), "",
                compile_expression(scoped, IdentifierExpression(name), Position_none))

\* `name = 7`
AssignIdentifier ==
    \E name \in ScopeIdentifiers :
        Resolve("assign", IdentifierExpression(name), "Assign",
                compile_expression(scoped,
                    InfixExpression(IdentifierExpression(name), "Assign",
                                    IntegerExpression(7)), Position_none))

CompoundTokens ==
    {"PlusAssign", "MinusAssign", "StarAssign", "SlashAssign", "PercentAssign"}

\* the token of the operation of a compound assignment token
PlainToken(infix) ==
    CASE infix = "PlusAssign" -> "Plus"
      [] infix = "MinusAssign" -> "Minus"
      [] infix = "StarAssign" -> "Star"
      [] infix = "SlashAssign" -> "Slash"
      [] infix = "PercentAssign" -> "Percent"

\* x, g, p, x.f, g[0] and, not assignable, 1 and f()
CompoundLefts ==
    {IdentifierExpression(n) : n \in {"x", "g", "p"}}
        \cup {InstanceGetExpression(IdentifierExpression("x"), StringExpression("f")),
              IndexGetExpression(IdentifierExpression("g"), IntegerExpression(0)),
              IntegerExpression(1),
              CallExpression(IdentifierExpression("p"), <<>>)}

\* `left op= 7`
CompoundAssign ==
    \E left \in CompoundLefts, infix \in CompoundTokens :
        Resolve("compound", left, infix,
                compile_expression(scoped,
                    InfixExpression(left, infix, IntegerExpression(7)), Position_none))

ScopeNext ==
    \/ EnterScope
    \/ ExitScope
    \/ DefineLocal
    \/ DefineAnonymousLocal
    \/ ReadIdentifier
    \/ AssignIdentifier
    \/ CompoundAssign

Defines == {"define_local", "define_anonymous_local"}

\* C22: over any sequence of enter_scope, exit_scope, define_local and
\* define_anonymous_local on one FunctionState, the indices returned grow
\* strictly (none is reused after an exit_scope), local_variable_count is the
\* number of indices returned, and a define_local fails exactly when there is
\* no scope or the innermost scope has the name, and then changes nothing.
FreshLocalIndices ==
    /\ \A i, j \in 1..Len(allocated) : i < j => allocated[i] < allocated[j]
    /\ scoped.func_state.local_variable_count = Len(allocated)
    /\ call.op \in Defines =>
           LET before == call.before.func_state
               fails == /\ call.op = "define_local"
                        /\ \/ before.scopes = <<>>
                           \/ call.name \in DOMAIN before.scopes[Len(before.scopes)]
           IN /\ fails <=> call.index = None
              /\ fails => scoped.func_state = before
              /\ ~fails => /\ call.index = allocated[Len(allocated)]
                           /\ scoped.func_state.local_variable_count =
                                  before.local_variable_count + 1

\* x is defined again after the scope of the first x was left: it gets index 1
FreshLocalIndicesWitness ==
    /\ call.op = "define_local"
    /\ call.name = "x"
    /\ allocated = <<0, 1>>
    /\ Len(call.before.func_state.scopes) = 1
    /\ find_local(call.before.func_state, "x") = None
    /\ find_local(scoped.func_state, "x") = 1

\* a define_local that fails where the code says it does
DefineLocalFailsWitness ==
    /\ call.op = "define_local"
    /\ call.index = None
    /\ allocated # <<>>
    /\ \/ call.before.func_state.scopes = <<>>
       \/ call.name \in DOMAIN call.before.func_state.scopes[1]

LastInstruction(fs) == fs.instructions[Len(fs.instructions)]

\* the scopes of the function, from the innermost, that have the name
Holders(fs, name) == {d \in 1..Len(fs.scopes) : name \in DOMAIN fs.scopes[d]}

Innermost(S) == CHOOSE d \in S : \A e \in S : e <= d

\* C23: an identifier that is read, or is the target of a plain assignment,
\* is looked up in the scopes of the function from the innermost (LocalGet /
\* LocalSet, even when the module scope has the name too), then in the module
\* scope (ContextGet / ContextSet), and is otherwise a global: its name is an
\* interned String constant whose index is added to global_dependencies
\* (GlobalGet / GlobalSet). A local or module name adds nothing to
\* global_dependencies.
IdentifierResolution ==
    call.op \in {"read", "assign"} =>
        LET name == call.left.name
            before == call.before
            holders == Holders(before.func_state, name)
            emitted == LastInstruction(scoped.func_state)
            get == call.op = "read"
        IN /\ Len(scoped.func_state.instructions) = IF get THEN 1 ELSE 2
           /\ scoped.errors = <<>>
           /\ IF holders # {}
              THEN /\ emitted = to_instruction(IF get THEN "LocalGet" ELSE "LocalSet",
                              before.func_state.scopes[Innermost(holders)][name])
                   /\ scoped.context.global_dependencies = {}
              ELSE IF name \in DOMAIN before.locals
              THEN /\ emitted = to_instruction(IF get THEN "ContextGet" ELSE "ContextSet",
                                            before.locals[name])
                   /\ scoped.context.global_dependencies = {}
              ELSE /\ emitted.opcode = IF get THEN "GlobalGet" ELSE "GlobalSet"
                   /\ ConstantAt(scoped.context, emitted.operand) = String(name)
                   /\ scoped.context.global_dependencies = {emitted.operand}

\* x is read where an outer scope of the function, the innermost scope and the
\* module scope all have it
IdentifierResolutionWitness ==
    /\ call.op = "read"
    /\ call.left.name = "x"
    /\ Cardinality(Holders(call.before.func_state, "x")) = 2
    /\ "x" \in DOMAIN call.before.locals
    /\ LastInstruction(scoped.func_state) = to_instruction("LocalGet", 1)

\* y is assigned where no scope has it any more: it is a global
GlobalAssignWitness ==
    /\ call.op = "assign"
    /\ call.left.name = "y"
    /\ allocated # <<>>
    /\ LastInstruction(scoped.func_state).opcode = "GlobalSet"

\* g is read from the module scope
ModuleReadWitness ==
    /\ call.op = "read"
    /\ call.left.name = "g"
    /\ LastInstruction(scoped.func_state) = to_instruction("ContextGet", 1)

Assignable(left) == left.k \in {"Identifier", "InstanceGet", "IndexGet"}

\* the instructions a compilation has added to the function
Added(before, after) ==
    SubSeq(after.func_state.instructions, Len(before.func_state.instructions) + 1,
           Len(after.func_state.instructions))

\* `left = left op 7` compiled where `left op= 7` was
PlainAssign ==
    compile_expression(call.before,
        InfixExpression(call.left, "Assign",
            InfixExpression(call.left, PlainToken(call.infix), IntegerExpression(7))),
        Position_none)

\* C26: `L op= R` with an identifier, an instance get or an index get on the
\* left is compiled to the read of L, R, the Operation of op and the store a
\* plain assignment to L emits: the instructions of `L = L op R`. Any other
\* left side is the compile error "can not assign".
CompoundAssignment ==
    call.op = "compound" =>
        LET before == call.before
            left == call.left
            reading == compile_expression(before, left, Position_none)
            operand == compile_expression(reading, IntegerExpression(7), Position_none)
            store == compile_assign_expression_left_part(
                         [operand EXCEPT !.func_state.instructions = <<>>],
                         InfixExpression(left, "Assign", IntegerExpression(7)),
                         Position_none)
        IN IF Assignable(left)
           THEN /\ scoped.errors = <<>>
                /\ Added(before, scoped) =
                       Added(before, operand)
                           \o <<to_instruction("Operation",
                                    get_operation_instruction_by_token(
                                        PlainToken(call.infix)))>>
                           \o store.func_state.instructions
                /\ Added(before, scoped) = Added(before, PlainAssign)
                /\ scoped.context = PlainAssign.context
           ELSE scoped.errors = <<"can not assign">>

\* x.f %= 7 with x a local of the function
CompoundAssignmentWitness ==
    /\ call.op = "compound"
    /\ call.left.k = "InstanceGet"
    /\ call.infix = "PercentAssign"
    /\ Len(scoped.func_state.instructions) = 8
    /\ scoped.func_state.instructions[1] = to_instruction("LocalGet", 0)
    /\ scoped.func_state.instructions[3] = to_instruction("InstanceGet", 0)
    /\ scoped.func_state.instructions[5] = to_instruction("Operation", 4)
    /\ scoped.func_state.instructions[6] = to_instruction("LocalGet", 0)
    /\ scoped.func_state.instructions[8] = to_instruction("InstanceSet", 0)

\* 1 += 7
CanNotAssignWitness ==
    /\ call.op = "compound"
    /\ call.left.k = "Integer"
    /\ scoped.errors = <<"can not assign">>
    /\ Len(scoped.func_state.instructions) = 3

(***************************************************************************)
(* The breaks of the for loops (function_state.rs:99-142,                   *)
(* compiler.rs:487-531).                                                    *)
(***************************************************************************)
InstructionAt(index) == func_state.instructions[index + 1]

\* the loops already compiled that a Jump stands in
Enclosing(jump) ==
    {l \in breaks.loops : l.start < jump.index /\ jump.index < l.back_jump}

\* the index after the back-jump of a loop
ExitPosition(loop) == loop.back_jump + 1

\* C25: the Jump of a break compiled inside for loops ends with the exit
\* position of its innermost enclosing for as target: the index after the
\* back-jump of that loop, where the JumpIf of the loop exits to, and so never
\* a position outside an outer loop. Outside every for the stack of break
\* scopes is empty and the Jump of every break has its target.
BreakResolution ==
    /\ \A l \in breaks.loops :
          /\ InstructionAt(l.back_jump) = to_instruction("Jump", l.start)
          /\ InstructionAt(l.jump_if) = to_instruction("JumpIf", ExitPosition(l))
    /\ \A j \in breaks.jumps :
          /\ InstructionAt(j.index).opcode = "Jump"
          /\ IF Enclosing(j) = {}
             THEN /\ j.level <= Len(blocks)
                  /\ blocks[j.level].b.kind = "for"
             ELSE /\ \E l \in Enclosing(j) :
                        /\ \A m \in Enclosing(j) : l.back_jump <= m.back_jump
                        /\ InstructionAt(j.index).operand = ExitPosition(l)
                  /\ \A l \in Enclosing(j) :
                        InstructionAt(j.index).operand <= ExitPosition(l)
                  /\ InstructionAt(j.index).operand # 0
    /\ ~InsideFor =>
          /\ func_state.break_scopes = <<>>
          /\ \A j \in breaks.jumps : Enclosing(j) # {}

\* a break in the inner of two loops, in a function compiled to its end: its
\* Jump goes to the exit of the inner loop, before the back-jump of the outer
BreakResolutionWitness ==
    /\ Compiled
    /\ \E j \in breaks.jumps :
          /\ Cardinality(Enclosing(j)) = 2
          /\ \E l \in Enclosing(j) : InstructionAt(j.index).operand < l.back_jump

\* a break in an if branch inside a loop
BreakInBranchWitness ==
    /\ ~InsideFor
    /\ \E j \in breaks.jumps : j.level = 1 /\ InstructionAt(j.index + 1).opcode = "PushConstant"

\* C29: in a compiled function with a rescue_position r other than 0 the
\* instruction r - 1 is a Return and no Jump or JumpIf before r has a target of
\* r or more: the body of the function never runs on into its rescue handler.
RescueSeparation ==
    (Compiled /\ func_state.rescue_position # 0) =>
        LET r == func_state.rescue_position
        IN /\ InstructionAt(r - 1).opcode = "Return"
           /\ \A i \in 0..(r - 1) :
                 IsJump(InstructionAt(i)) => InstructionAt(i).operand < r

(***************************************************************************)
(* The value of an if (compiler.rs:435-466, function_state.rs:70-89).       *)
(***************************************************************************)
\* the if of the program has been left, by either branch
IfLeft == program.kind = "if" /\ loop_depth.exit # None

\* C24: whichever branch of an if runs to its end, the stack holds one value
\* more than before the condition was evaluated, whether the branch is empty
\* or ends with an expression, a local, a for or another if; a truthy
\* condition runs the then part, any other the else part, and a missing else
\* part leaves Null.
IfLeavesOneValue ==
    IfLeft =>
        LET c == program.arguments[1]
            s == IF Running THEN frames[1].locals[2] ELSE None
        IN /\ loop_depth.exit = loop_depth.entry + 1
           /\ (Running /\ current_frame(M).program_counter = program.marks.exit) =>
                 /\ Fetch.opcode = "Return"
                 /\ s = CASE to_bool(c) /\ program.then_ending \notin Unmarked -> Integer(1)
                          [] ~to_bool(c) /\ program.else_ending \notin Unmarked -> Integer(2)
                          [] OTHER -> Integer(0)
                 /\ (~to_bool(c) /\ program.else_ending = "none") => Top(M) = Null
           /\ outcome.r \in {"Running", "Ok"}

\* the then part ends with a for and has run to its end
IfLeavesOneValueWitness ==
    /\ IfLeft
    /\ program.then_ending = "for"
    /\ program.else_ending = "local"
    /\ to_bool(program.arguments[1])
    /\ outcome = Ok(Null)

\* the else part ends with a nested if whose else part is missing
NestedIfWitness ==
    /\ IfLeft
    /\ program.else_ending = "if"
    /\ ~to_bool(program.arguments[1])
    /\ outcome = Ok(Null)

\* no else part and a falsy condition
MissingElseWitness ==
    /\ IfLeft
    /\ program.else_ending = "none"
    /\ program.arguments[1] = Integer(0)
    /\ outcome = Ok(Null)

(***************************************************************************)
(* The names of the module scope (compiler.rs:247-265): the definitions of  *)
(* one file that bind a name, compiled one after the other by               *)
(* compile_definition. The name token of a definition is an identifier.     *)
(***************************************************************************)
MaxModuleDefinitions == 3

ModuleNames == {"f", "g"}

\* the public_indices of the assembly an include names: P is its constant 1
IncludedPublic == MapInsert(EmptyMap, "P", TRUE_CONSTANT_INDEX)

\* `include P as alias from "file"`, lines 568-578
compile_include_definition(u, alias, public_name, public_indices) ==
    With(CompilerEnv_define_local(u, alias), LAMBDA d :
        IF d.index # None /\ public_name \in DOMAIN public_indices
        THEN [d.unit EXCEPT !.local_values =
                                MapInsert(@, d.index, public_indices[public_name])]
        ELSE d.unit)

ModuleInit ==
    /\ compiling = Unit_new
    /\ definition = NoDefinition

Defined(kind, name, u) ==
    /\ definition.count < MaxModuleDefinitions
    /\ compiling' = u
    /\ definition' = [kind |-> kind, count |-> definition.count + 1, name |-> name,
                      before |-> compiling]
    /\ UNCHANGED NotUnit

\* function name() return end
ModuleFunction ==
    \E name \in ModuleNames :
        \E r \in {compile_function_definition(compiling,
                      FunctionDefinition(name, <<>>, <<ReturnStatement>>))} :
            Defined("function", name, r.unit)

\* model name x end
ModuleModel ==
    \E name \in ModuleNames :
        \E u \in {compile_model_definition(compiling, name, <<"x">>)} :
            Defined("model", name, u)

\* local name = 7
ModuleLocal ==
    \E name \in ModuleNames :
        \E u \in {compile_local_definition(compiling, name, 7)} :
            Defined("local", name, u)

\* include P as name from "file", and a Q the file does not export
ModuleInclude ==
    \E name \in ModuleNames, public_name \in {"P", "Q"} :
        \E u \in {compile_include_definition(compiling, name, public_name, IncludedPublic)} :
            Defined("include", name, u)

ModuleNext == ModuleFunction \/ ModuleModel \/ ModuleLocal \/ ModuleInclude

\* the definition just compiled uses a name the module scope already had
Duplicate ==
    /\ definition.kind \in {"function", "model", "local", "include"}
    /\ definition.name \in DOMAIN definition.before.locals

\* C30: a definition of the module (function, model, local, include alias)
\* whose name the module scope already has records a compile error, so that
\* the file fails to compile, and leaves the local_values entry of the slot
\* of the name as it was.
DuplicateNameIsError ==
    Duplicate =>
        LET before == definition.before
            slot == before.locals[definition.name]
        IN /\ Len(compiling.errors) > Len(before.errors)
           /\ compiling.locals = before.locals
           /\ (slot \in DOMAIN compiling.local_values) = (slot \in DOMAIN before.local_values)
           /\ slot \in DOMAIN before.local_values =>
                 compiling.local_values[slot] = before.local_values[slot]

\* what the code keeps of the claim: the scope and the slot are left alone
DuplicateNameKeepsSlot ==
    Duplicate =>
        LET before == definition.before
            slot == before.locals[definition.name]
        IN /\ compiling.locals = before.locals
           /\ compiling.local_variable_count = before.local_variable_count
           /\ (slot \in DOMAIN compiling.local_values) = (slot \in DOMAIN before.local_values)
           /\ slot \in DOMAIN before.local_values =>
                 compiling.local_values[slot] = before.local_values[slot]

\* a second function f after local f = 7: no error, f is still the integer
DuplicateNameWitness ==
    /\ Duplicate
    /\ definition.kind = "function"
    /\ definition.name = "f"
    /\ compiling.errors = <<>>
    /\ get_local_value(compiling, compiling.locals["f"]) = Integer(7)
    /\ Len(compiling.function_definitions) = 1

(***************************************************************************)
(* Specifications. Each one runs one part of the program and leaves the     *)
(* state of the others as constructed.                                      *)
(***************************************************************************)
SolverIdle ==
    /\ solver = DependencySolver_new
    /\ documents = EmptyMap
    /\ loaded_assemblies = {}
    /\ filenames = <<>>
    /\ pc = "idle"
    /\ result = "none"

OtherIdle(part) ==
    /\ part = "Load" \/ SolverIdle
    /\ part \in {"Function"} \/ ConstInit
    /\ ModelInit
    /\ part = "Function" \/ FuncIdle
    /\ part = "Env" \/ EnvIdle
    /\ part = "Image" \/ ImageIdle
    /\ part = "Lex" \/ LexIdle
    /\ part = "Operation" \/ OperationIdle
    /\ part = "Unit" \/ UnitIdle
    /\ part = "Scope" \/ ScopeIdle

InitLoad == SolverInit /\ OtherIdle("Load")

SpecLoad == InitLoad /\ [][SolverNext]_vars

InitConst == OtherIdle("Const")

SpecConst == InitConst /\ [][ConstNext]_vars

InitModel == OtherIdle("Model")

SpecModel == InitModel /\ [][ModelNext]_vars

InitFunction == FuncInit /\ OtherIdle("Function")

SpecFunction == InitFunction /\ [][FunctionNext]_vars

InitEnv == EnvInit /\ OtherIdle("Env")

SpecEnv == InitEnv /\ [][EnvNext]_vars

InitImage == ImageInit /\ OtherIdle("Image")

SpecImage == InitImage /\ [][ImageNext]_vars

InitLex == LexInit /\ OtherIdle("Lex")

SpecLex == InitLex /\ [][LexNext]_vars

InitOperation == OperationInit /\ OtherIdle("Operation")

SpecOperation == InitOperation /\ [][OperationNext]_vars

InitUnit == UnitInit /\ OtherIdle("Unit")

SpecUnit == InitUnit /\ [][UnitNext]_vars

InitScope == ScopeInit /\ OtherIdle("Scope")

SpecScope == InitScope /\ [][ScopeNext]_vars

\* compile_to runs on: each step of its loops is taken
SpecLoadFair == InitLoad /\ [][SolverNext]_vars /\ WF_vars(SolverNext)

InitModule == ModuleInit /\ OtherIdle("Unit")

SpecModule == InitModule /\ [][ModuleNext]_vars

====
